---- MODULE Spec2Model ----
(***************************************************************************)
(* Model of the firework HTTP server core: the builder (Server), the       *)
(* listener (Server::listen), the per-connection task (handle_connection), *)
(* the shared buffer pool, the radix-tree router and the test client       *)
(* (TestClient::execute).                                                  *)
(*                                                                         *)
(* Bytes on a socket are modelled in units: one unit stands for a run of   *)
(* bytes.  A unit is a record [k, r, n]: k is "hdr" (header bytes without  *)
(* the terminator), "end" (the header bytes that end with CRLF CRLF),      *)
(* "body" (body bytes), "zero" (the zero fill of BytesMut::resize), "head" *)
(* (a serialized status line and headers) or the text of literal bytes; r  *)
(* is the index in ClientRequests of the request the bytes belong to and n *)
(* the position of that request among those sent on its connection.       *)
(***************************************************************************)
EXTENDS Integers, Sequences, FiniteSets, TLC

(* ------------------------------ bounds -------------------------------- *)

\* connections the clients open at once (one task each)
NumConns == 2
\* requests the clients send, over all connections
MaxRequests == 2
\* middleware registrations made on the builder
MaxMiddlewares == 2
\* failed accept() calls the environment produces
MaxAcceptErrors == 1
\* requests made through the test client
MaxTestRequests == 1
\* socket reads or writes that fail with an I/O error
MaxIoErrors == 1

\* server.rs:18 MAX_POOLED_BUFFERS is 1024; scaled so that the pool fills
MAX_POOLED_BUFFERS == 2
\* server.rs:17 BUFFER_SIZE is 8192 bytes; here in units
BUFFER_SIZE == 2
\* server.rs:268 grows the read buffer by 4096 bytes per read; here in units
READ_GROW == 2

Conns == 1..NumConns

(* ------------------------- strings and tables ------------------------- *)

\* str::eq_ignore_ascii_case / to_lowercase over the strings that occur
ToLower(s) ==
    CASE s = "Connection" -> "connection"
      [] s = "CONNECTION" -> "connection"
      [] s = "Content-Length" -> "content-length"
      [] s = "Upgrade" -> "upgrade"
      [] s = "Close" -> "close"
      [] s = "Keep-Alive" -> "keep-alive"
      [] s = "WebSocket" -> "websocket"
      [] s = "Sec-WebSocket-Key" -> "sec-websocket-key"
      [] OTHER -> s

EqIgnoreAsciiCase(a, b) == ToLower(a) = ToLower(b)

\* str::to_uppercase on method names (router.rs:36)
ToUpper(s) ==
    CASE s = "get" -> "GET"
      [] s = "post" -> "POST"
      [] OTHER -> s

\* connection.to_lowercase().contains("upgrade") (websocket.rs:181)
ContainsUpgrade(s) == ToLower(s) \in {"upgrade", "keep-alive, upgrade"}

\* value.parse().unwrap_or(0) on a Content-Length value (server.rs:301)
ParseUsize(s) ==
    CASE s = "1" -> 1
      [] s = "2" -> 2
      [] s = "3" -> 3
      [] OTHER -> 0

\* HashMap::insert on a header map: the last write wins
MapInsert(m, k, v) == (k :> v) @@ m

EmptyMap == [x \in {} |-> ""]

(* ------------------------------ Response ------------------------------ *)

\* usize::to_string of a body length
LenToString(n) ==
    CASE n = 0 -> "0"
      [] n = 1 -> "1"
      [] n = 2 -> "2"
      [] n = 3 -> "3"
      [] n = 4 -> "4"
      [] n = 5 -> "5"
      [] n = 6 -> "6"
      [] n = 7 -> "7"
      [] n = 8 -> "8"
      [] n = 9 -> "9"
      [] n = 10 -> "10"
      [] n = 11 -> "11"
      [] n = 12 -> "12"
      [] OTHER -> "many"

\* Response::new (response.rs:101): Content-Length and Connection: close
ResponseNew(status, body) ==
    [status |-> status,
     headers |-> MapInsert(MapInsert(EmptyMap, "Content-Length", LenToString(Len(body))),
                           "Connection", "close"),
     streaming |-> FALSE,
     body |-> body]

\* impl Default for Response (response.rs:234)
ResponseDefault == ResponseNew(200, <<>>)

\* a run of literal bytes
Text(s) == [k |-> s, r |-> 0, n |-> 0]

\* Response::set_body (response.rs:190): the headers are left as they are
ResponseSetBody(res, body) == [res EXCEPT !.body = body, !.streaming = FALSE]

\* Response::text (response.rs:196)
ResponseText(res, text) ==
    [res EXCEPT !.body = text,
                !.streaming = FALSE,
                !.headers = MapInsert(@, "Content-Type", "text/plain; charset=utf-8")]

(* ------------------------------- Router ------------------------------- *)
\* A route path is a sequence of segments [param, name]: ":id" is
\* [param |-> TRUE, name |-> "id"].  A request path is a sequence of strings.

\* RadixNode::new (router.rs:19)
RadixNodeNew ==
    [path |-> "", children |-> <<>>, handlers |-> EmptyMap,
     is_param |-> FALSE, param_name |-> ""]

RECURSIVE InsertParts(_, _, _, _)
\* insert_parts with one handler per node: a new one replaces the others
InsertPartsOneHandler(node, method, parts, handler) ==
    IF parts = <<>>
    THEN [node EXCEPT !.handlers = MapInsert(EmptyMap, ToUpper(method), handler)]
    ELSE LET part == Head(parts)
             hit == {i \in 1..Len(node.children) :
                       \/ node.children[i].is_param /\ part.param
                       \/ ~node.children[i].is_param /\ ~part.param
                             /\ node.children[i].path = part.name}
         IN IF hit # {}
            THEN LET i == CHOOSE j \in hit : \A k \in hit : j <= k
                 IN [node EXCEPT !.children[i] =
                        InsertParts(@, method, Tail(parts), handler)]
            ELSE LET child == [RadixNodeNew EXCEPT
                                  !.path = IF part.param THEN ":param" ELSE part.name,
                                  !.is_param = part.param,
                                  !.param_name = IF part.param THEN part.name ELSE ""]
                 IN [node EXCEPT !.children =
                        Append(@, InsertParts(child, method, Tail(parts), handler))]

\* insert_parts that stores the handler under the method as it was given
InsertPartsMethodAsGiven(node, method, parts, handler) ==
    IF parts = <<>>
    THEN [node EXCEPT !.handlers = MapInsert(@, method, handler)]
    ELSE LET part == Head(parts)
             hit == {i \in 1..Len(node.children) :
                       \/ node.children[i].is_param /\ part.param
                       \/ ~node.children[i].is_param /\ ~part.param
                             /\ node.children[i].path = part.name}
         IN IF hit # {}
            THEN LET i == CHOOSE j \in hit : \A k \in hit : j <= k
                 IN [node EXCEPT !.children[i] =
                        InsertParts(@, method, Tail(parts), handler)]
            ELSE LET child == [RadixNodeNew EXCEPT
                                  !.path = IF part.param THEN ":param" ELSE part.name,
                                  !.is_param = part.param,
                                  !.param_name = IF part.param THEN part.name ELSE ""]
                 IN [node EXCEPT !.children =
                        Append(@, InsertParts(child, method, Tail(parts), handler))]

\* insert_parts that renames the parameter child it goes through
InsertPartsLastName(node, method, parts, handler) ==
    IF parts = <<>>
    THEN [node EXCEPT !.handlers = MapInsert(@, ToUpper(method), handler)]
    ELSE LET part == Head(parts)
             hit == {i \in 1..Len(node.children) :
                       \/ node.children[i].is_param /\ part.param
                       \/ ~node.children[i].is_param /\ ~part.param
                             /\ node.children[i].path = part.name}
         IN IF hit # {}
            THEN LET i == CHOOSE j \in hit : \A k \in hit : j <= k
                 IN [node EXCEPT !.children[i] =
                        InsertParts([@ EXCEPT !.param_name =
                                        IF part.param THEN part.name ELSE ""],
                                    method, Tail(parts), handler)]
            ELSE LET child == [RadixNodeNew EXCEPT
                                  !.path = IF part.param THEN ":param" ELSE part.name,
                                  !.is_param = part.param,
                                  !.param_name = IF part.param THEN part.name ELSE ""]
                 IN [node EXCEPT !.children =
                        Append(@, InsertParts(child, method, Tail(parts), handler))]

\* RadixNode::insert_parts (router.rs:34)
InsertParts(node, method, parts, handler) ==
    IF parts = <<>>
    THEN [node EXCEPT !.handlers = MapInsert(@, ToUpper(method), handler)]
    ELSE LET part == Head(parts)
             remaining == Tail(parts)
             is_param == part.param
             search_key == IF is_param THEN ":param" ELSE part.name
             param_name == IF is_param THEN part.name ELSE ""
             hit == {i \in 1..Len(node.children) :
                       \/ node.children[i].is_param /\ is_param
                       \/ ~node.children[i].is_param /\ node.children[i].path = search_key}
         IN IF hit # {}
            THEN LET i == CHOOSE j \in hit : \A k \in hit : j <= k
                 IN [node EXCEPT !.children[i] =
                                    InsertParts(@, method, remaining, handler)]
            ELSE LET child == [RadixNodeNew EXCEPT !.path = search_key,
                                                   !.is_param = is_param,
                                                   !.param_name = param_name]
                 IN [node EXCEPT !.children =
                        Append(@, InsertParts(child, method, remaining, handler))]

RECURSIVE SearchParts(_, _, _, _)
RECURSIVE SearchChildren(_, _, _, _, _, _)
RECURSIVE SearchChildrenStarAny(_, _, _, _, _, _)
\* child loops in which a literal child '*' matches any segment
SearchChildrenStarAny(node, i, wantParam, method, parts, params) ==
    IF i > Len(node.children)
    THEN [found |-> FALSE, handler |-> "", params |-> params]
    ELSE LET child == node.children[i]
             part == Head(parts)
         IN IF wantParam
            THEN IF child.is_param
                 THEN LET p2 == IF child.param_name # ""
                                THEN MapInsert(params, child.param_name, part)
                                ELSE params
                          r == SearchParts(child, method, Tail(parts), p2)
                      IN IF r.found THEN r
                         ELSE SearchChildrenStarAny(node, i + 1, wantParam, method, parts, p2)
                 ELSE SearchChildrenStarAny(node, i + 1, wantParam, method, parts, params)
            ELSE IF ~child.is_param /\ (child.path = part \/ child.path = "*")
                 THEN LET r == SearchParts(child, method, Tail(parts), params)
                      IN IF r.found THEN r
                         ELSE SearchChildrenStarAny(node, i + 1, wantParam, method, parts, params)
                 ELSE SearchChildrenStarAny(node, i + 1, wantParam, method, parts, params)

\* The two child loops of search_parts (router.rs:82-100); wantParam selects
\* the loop.  params is threaded through because the parameter loop inserts
\* into it before it recurses.
SearchChildren(node, i, wantParam, method, parts, params) ==
    IF i > Len(node.children)
    THEN [found |-> FALSE, handler |-> "", params |-> params]
    ELSE LET child == node.children[i]
             part == Head(parts)
         IN IF wantParam
            THEN IF child.is_param
                 THEN LET p2 == IF child.param_name # ""
                                THEN MapInsert(params, child.param_name, part)
                                ELSE params
                          r == SearchParts(child, method, Tail(parts), p2)
                      IN IF r.found THEN r
                         ELSE SearchChildren(node, i + 1, wantParam, method, parts, p2)
                 ELSE SearchChildren(node, i + 1, wantParam, method, parts, params)
            ELSE IF ~child.is_param /\ child.path = part
                 THEN LET r == SearchParts(child, method, Tail(parts), params)
                      IN IF r.found THEN r
                         ELSE SearchChildren(node, i + 1, wantParam, method, parts, params)
                 ELSE SearchChildren(node, i + 1, wantParam, method, parts, params)

\* search_parts with the parameter children tried before the literal ones
SearchPartsParamFirst(node, method, parts, params) ==
    IF parts = <<>>
    THEN IF method \in DOMAIN node.handlers
         THEN [found |-> TRUE, handler |-> node.handlers[method], params |-> params]
         ELSE [found |-> FALSE, handler |-> "", params |-> params]
    ELSE LET byParam == SearchChildren(node, 1, TRUE, method, parts, params)
         IN IF byParam.found THEN byParam
            ELSE LET exact == SearchChildren(node, 1, FALSE, method, parts, params)
                 IN IF exact.found THEN exact
                    ELSE [found |-> FALSE, handler |-> "", params |-> params]

\* search_parts that does not try the parameter children once a literal
\* child has the segment
SearchPartsNoFallback(node, method, parts, params) ==
    IF parts = <<>>
    THEN IF method \in DOMAIN node.handlers
         THEN [found |-> TRUE, handler |-> node.handlers[method], params |-> params]
         ELSE [found |-> FALSE, handler |-> "", params |-> params]
    ELSE IF \E i \in 1..Len(node.children) :
               ~node.children[i].is_param /\ node.children[i].path = Head(parts)
    THEN SearchChildren(node, 1, FALSE, method, parts, params)
    ELSE SearchChildren(node, 1, TRUE, method, parts, params)

\* RadixNode::search_parts (router.rs:73)
SearchParts(node, method, parts, params) ==
    IF parts = <<>>
    THEN IF method \in DOMAIN node.handlers
         THEN [found |-> TRUE, handler |-> node.handlers[method], params |-> params]
         ELSE [found |-> FALSE, handler |-> "", params |-> params]
    ELSE LET exact == SearchChildren(node, 1, FALSE, method, parts, params)
         IN IF exact.found THEN exact
            ELSE LET byParam == SearchChildren(node, 1, TRUE, method, parts, params)
                 IN IF byParam.found THEN byParam
                    ELSE [found |-> FALSE, handler |-> "", params |-> params]

\* Router::add_route (router.rs:131)
AddRoute(router, method, path, handler) == InsertParts(router, method, path, handler)

\* Router::find (router.rs:135) with method_to_string (router.rs:107)
RouterFind(router, method, path) == SearchParts(router, ToUpper(method), path, EmptyMap)

(* ------------------------------ Request ------------------------------- *)

\* parse_version (server.rs:507) on httparse's version digit
ParseVersion(v) ==
    CASE v = 0 -> "Http10"
      [] v = 1 -> "Http11"
      [] v = 2 -> "Http2"
      [] OTHER -> "Unknown"

\* header_map.entry(name).or_insert_with(Vec::new).push(value) (server.rs:306)
HeaderPush(m, name, value) ==
    IF name \in DOMAIN m
    THEN [m EXCEPT ![name] = Append(@, value)]
    ELSE (name :> <<value>>) @@ m

RECURSIVE HeaderLoop(_, _, _)
\* The loop over req.headers (server.rs:296-310); acc is
\* [header_map, content_length, keep_alive].
HeaderLoop(hs, i, acc) ==
    IF i > Len(hs) THEN acc
    ELSE LET name == hs[i][1]
             value == hs[i][2]
             cl == IF EqIgnoreAsciiCase(name, "content-length")
                   THEN ParseUsize(value) ELSE acc.content_length
             ka == IF ~EqIgnoreAsciiCase(name, "content-length")
                      /\ EqIgnoreAsciiCase(name, "connection")
                   THEN EqIgnoreAsciiCase(value, "keep-alive")
                   ELSE acc.keep_alive
         IN HeaderLoop(hs, i + 1,
                [header_map |-> HeaderPush(acc.header_map, name, value),
                 content_length |-> cl,
                 keep_alive |-> ka])

EmptyHeaders == [x \in {} |-> <<>>]

\* server.rs:291-310: header map, Content-Length and the keep-alive decision
ParseHeaders(version, hs) ==
    HeaderLoop(hs, 1, [header_map |-> EmptyHeaders,
                       content_length |-> 0,
                       keep_alive |-> (version = "Http11")])

\* Request::new (request.rs:96)
RequestNew(method, path, version, headers, body) ==
    [method |-> method, path |-> path, version |-> version,
     headers |-> headers, body |-> body, params |-> EmptyMap]

NoRequest == RequestNew("", <<>>, "", EmptyHeaders, <<>>)

\* Request::header (request.rs:140): exact name, first value
RequestHeader(req, name) ==
    IF name \in DOMAIN req.headers /\ req.headers[name] # <<>>
    THEN [some |-> TRUE, v |-> req.headers[name][1]]
    ELSE [some |-> FALSE, v |-> ""]

\* Option<&str>::unwrap_or("")
UnwrapOrEmpty(o) == IF o.some THEN o.v ELSE ""

(* ------------------------------ WebSocket ----------------------------- *)

\* is_websocket_upgrade (websocket.rs:176)
IsWebsocketUpgrade(req) ==
    /\ EqIgnoreAsciiCase(UnwrapOrEmpty(RequestHeader(req, "Upgrade")), "websocket")
    /\ ContainsUpgrade(UnwrapOrEmpty(RequestHeader(req, "Connection")))

\* generate_accept_key (websocket.rs:203): a function of the client's key
GenerateAcceptKey(key) == "accept(" \o key \o ")"

\* websocket_upgrade (websocket.rs:185)
WebsocketUpgrade(req) ==
    LET key == RequestHeader(req, "Sec-WebSocket-Key")
    IN IF ~IsWebsocketUpgrade(req) \/ ~key.some
       THEN [some |-> FALSE, res |-> ResponseDefault]
       ELSE [some |-> TRUE,
             res |-> [ResponseNew(101, <<>>) EXCEPT !.headers =
                        MapInsert(MapInsert(MapInsert(@, "Upgrade", "websocket"),
                                            "Connection", "Upgrade"),
                                  "Sec-WebSocket-Accept", GenerateAcceptKey(key.v))]]

(* ---------------- application code: middleware and handlers ----------- *)

\* Flow::Next / Flow::Stop (lib.rs:64)
FlowNext(req, res) == [stop |-> FALSE, req |-> req, res |-> res]
FlowStop(res) == [stop |-> TRUE, req |-> NoRequest, res |-> res]

\* fn add_header (test.rs:449)
add_header(req, res) ==
    FlowNext(req, [res EXCEPT !.headers = MapInsert(@, "X-Middleware", "active")])

\* fn auth_middleware (testing_example.rs:31)
auth_middleware(req, res) ==
    IF "Authorization" \in DOMAIN req.headers
       /\ req.headers["Authorization"] # <<>>
       /\ req.headers["Authorization"][1] = "Bearer valid_token"
    THEN FlowNext(req, res)
    ELSE FlowStop(ResponseSetBody([res EXCEPT !.status = 401], <<Text("Unauthorized")>>))

\* async fn async_auth (main.rs:55) with Error::into_response (error.rs:70)
async_auth(req, res) ==
    IF RequestHeader(req, "Authorization").some
       /\ RequestHeader(req, "Authorization").v \in {"Bearer valid_token", "Bearer 1"}
    THEN FlowNext(req, res)
    ELSE FlowStop([ResponseNew(401, <<Text("{error:Token required,status:401}")>>)
                      EXCEPT !.headers = MapInsert(@, "Content-Type", "application/json")])

\* async fn async_response_logger (main.rs:111)
async_response_logger(req, res) == FlowNext(req, res)

SyncMiddlewareNames == {"add_header", "auth_middleware"}
AsyncMiddlewareNames == {"async_auth", "async_response_logger"}

\* calling a fn(Request, Response) -> Flow through its pointer
CallMiddleware(mw, req, res) ==
    CASE mw = "add_header" -> add_header(req, res)
      [] mw = "auth_middleware" -> auth_middleware(req, res)
      [] mw = "async_auth" -> async_auth(req, res)
      [] OTHER -> async_response_logger(req, res)

\* async fn hello_handler (test.rs:328)
hello_handler(req, res) == ResponseSetBody(res, <<Text("Hello, World!")>>)

\* async fn echo_handler (test.rs:337)
echo_handler(req, res) == ResponseSetBody(res, req.body)

\* AsyncHandler::call (lib.rs:73) on a registered handler
HandlerCall(h, req, res) ==
    IF h = "hello_handler" THEN hello_handler(req, res) ELSE echo_handler(req, res)

\* a literal route path
Lit(names) == [i \in 1..Len(names) |-> [param |-> FALSE, name |-> names[i]]]

(* ------------------------------ the clients --------------------------- *)

\* The requests a client may send.  version is httparse's version digit,
\* hlen the units of the header block, blen the units of body sent, valid
\* whether httparse accepts the header block.
ClientRequests == <<
    [method |-> "GET", path |-> <<"hello">>, version |-> 1, headers |-> <<>>,
     hlen |-> 1, blen |-> 0, valid |-> TRUE],
    [method |-> "GET", path |-> <<"hello">>, version |-> 1,
     headers |-> << <<"Connection", "Close">> >>,
     hlen |-> 1, blen |-> 0, valid |-> TRUE],
    [method |-> "GET", path |-> <<"hello">>, version |-> 0, headers |-> <<>>,
     hlen |-> 1, blen |-> 0, valid |-> TRUE],
    [method |-> "GET", path |-> <<"hello">>, version |-> 0,
     headers |-> << <<"connection", "Keep-Alive">> >>,
     hlen |-> 1, blen |-> 0, valid |-> TRUE],
    [method |-> "GET", path |-> <<"hello">>, version |-> 1,
     headers |-> << <<"Connection", "Upgrade">> >>,
     hlen |-> 1, blen |-> 0, valid |-> TRUE],
    [method |-> "GET", path |-> <<"missing">>, version |-> 1, headers |-> <<>>,
     hlen |-> 1, blen |-> 0, valid |-> TRUE],
    [method |-> "GET", path |-> <<"hello">>, version |-> 1, headers |-> <<>>,
     hlen |-> 1, blen |-> 0, valid |-> FALSE],
    [method |-> "GET", path |-> <<"hello">>, version |-> 1, headers |-> <<>>,
     hlen |-> BUFFER_SIZE * 2 + READ_GROW, blen |-> 0, valid |-> TRUE],
    [method |-> "POST", path |-> <<"echo">>, version |-> 1,
     headers |-> << <<"Content-Length", "2">> >>,
     hlen |-> 2, blen |-> 2, valid |-> TRUE],
    [method |-> "GET", path |-> <<"ws">>, version |-> 1,
     headers |-> << <<"Upgrade", "websocket">>, <<"Connection", "Upgrade">>,
                    <<"Sec-WebSocket-Key", "key">> >>,
     hlen |-> 1, blen |-> 0, valid |-> TRUE],
    [method |-> "GET", path |-> <<"hello">>, version |-> 1,
     headers |-> << <<"Upgrade", "websocket">>, <<"Connection", "Upgrade">>,
                    <<"Sec-WebSocket-Key", "key">> >>,
     hlen |-> 1, blen |-> 0, valid |-> TRUE],
    [method |-> "GET", path |-> <<"ws">>, version |-> 1,
     headers |-> << <<"Upgrade", "websocket">>, <<"Connection", "Upgrade">> >>,
     hlen |-> 1, blen |-> 0, valid |-> TRUE],
    [method |-> "GET", path |-> <<"hello">>, version |-> 1, headers |-> <<>>,
     hlen |-> BUFFER_SIZE * 2 + READ_GROW - 1, blen |-> 0, valid |-> TRUE] >>

\* the j-th byte of a request body
BodyByte(j) ==
    CASE j = 1 -> "body1"
      [] j = 2 -> "body2"
      [] j = 3 -> "body3"
      [] OTHER -> "body"

\* the bytes of request r, sent as the n-th request of its connection
Wire(r, n) ==
    LET t == ClientRequests[r]
    IN [i \in 1..(t.hlen + t.blen) |->
          [k |-> IF i < t.hlen THEN "hdr"
                 ELSE IF i = t.hlen THEN "end" ELSE BodyByte(i - t.hlen),
           r |-> r, n |-> n]]

\* What the environment does in a run: how many clients connect, which
\* requests they send, how many middlewares the application registers.
\* Either one client sends any of the requests to a server with any
\* middlewares, or several clients send some of them to a server without.
Scenarios == {
    [conns |-> 1, templates |-> 1..Len(ClientRequests), middlewares |-> MaxMiddlewares],
    [conns |-> NumConns, templates |-> {1, 7, 8}, middlewares |-> 0] }

Zero == [k |-> "zero", r |-> 0, n |-> 0]
Zeros(n) == [i \in 1..n |-> Zero]

Min(a, b) == IF a < b THEN a ELSE b

(* ------------------------------ buffer pool --------------------------- *)

\* BytesMut::clear
BufClear(buf) == <<>>

\* return_buffer without the clear
ReturnBufferNoClear(p, buf) ==
    IF Len(p) < MAX_POOLED_BUFFERS THEN Append(p, buf) ELSE p

\* return_buffer without the bound
ReturnBufferNoBound(p, buf) == Append(p, BufClear(buf))

\* get_buffer (server.rs:25): Vec::pop, or a new empty buffer
GetBuffer(p) ==
    IF p = <<>>
    THEN [buf |-> <<>>, pool |-> p]
    ELSE [buf |-> p[Len(p)], pool |-> SubSeq(p, 1, Len(p) - 1)]

\* return_buffer (server.rs:33)
ReturnBuffer(p, buf) ==
    LET b == BufClear(buf)
    IN IF Len(p) < MAX_POOLED_BUFFERS THEN Append(p, b) ELSE p

(* -------------------------------- state ------------------------------- *)

VARIABLES
    server,     \* the Server being built, then the state of listen
    pool,       \* BUFFER_POOL: the Vec<BytesMut>
    dropped,    \* number of buffers return_buffer did not keep
    conn,       \* per connection: the handle_connection task
    net,        \* per connection: the socket as the peer and the wire see it
    env,        \* the scenario, and what the environment has done so far
    test,       \* the TestClient and its last exchange
    routing,    \* a Router, the routes added to it and the last lookup made
    resp,       \* a Response, the operations applied to it and what was written
    scoped,     \* an application built by #[scope] and routes!(), and its last exchange
    ctx,        \* a request Context, the values set in it and the last lookup
    served,     \* a file system, and the last answer of serve_static
    registry,   \* a PluginRegistry, and the plugins its passes visited
    room        \* a WebSocketRoom, its connections' mutexes and a broadcast

vars == <<server, pool, dropped, conn, net, env, test, routing, resp, scoped, ctx, served, registry, room>>

\* Router::new (router.rs:125): an empty root; no route added, no lookup made
RoutingNew ==
    [router |-> RadixNodeNew, before |-> RadixNodeNew, routes |-> <<>>, asked |-> FALSE,
     method |-> "", path |-> <<>>,
     result |-> [found |-> FALSE, handler |-> "", params |-> EmptyMap]]

\* no Response built yet
RespNone ==
    [made |-> FALSE, res |-> ResponseDefault, ops |-> <<>>, reads |-> <<>>,
     pc |-> "init", wire |-> <<>>]

\* no #[scope] expanded yet, no server built by routes!()
ScopedNew ==
    [pc |-> "declare", pre |-> <<>>, post |-> <<>>, slice |-> <<>>,
     middlewares |-> <<>>, async_middlewares |-> <<>>,
     path |-> <<>>, authorization |-> "",
     response |-> ResponseDefault, calls |-> <<>>, inner |-> <<>>]

\* Context::new (request.rs:46): an empty map; nothing set, nothing asked
ContextNew ==
    [data |-> EmptyMap, sets |-> <<>>, asked |-> "", at |-> 0,
     result |-> [some |-> FALSE, v |-> ""]]

\* serve_static not called yet
\* PluginRegistry::new (plugin.rs:100): no plugin; nothing validated,
\* initialised or started
PluginRegistryNew ==
    [plugins |-> <<>>, before |-> <<>>, validated |-> "", inited |-> <<>>, started |-> <<>>]

\* WebSocketRoom::new (websocket.rs:227): no connection; no mutex held, no
\* broadcast made
WebSocketRoomNew ==
    [connections |-> <<>>, held |-> {}, received |-> <<>>,
     pc |-> "idle", at_call |-> <<>>, i |-> 0, broadcasts |-> 0]

ServedNone ==
    [pc |-> "setup", windows |-> FALSE, base_exists |-> FALSE, index_exists |-> FALSE,
     link_exists |-> FALSE, path |-> <<>>, status |-> 0,
     opened |-> <<>>, resolved |-> <<>>]

\* the routes the application registers before anything else
AppRouter ==
    AddRoute(AddRoute(RadixNodeNew, "GET", Lit(<<"hello">>), "hello_handler"),
             "post", Lit(<<"echo">>), "echo_handler")

IdleConn ==
    [pc |-> "idle", read_buf |-> <<>>, total_read |-> 0, write_buf |-> <<>>,
     request |-> NoRequest, response |-> ResponseDefault,
     keep_alive |-> FALSE, stopped |-> FALSE, idx |-> 0,
     hdr |-> 0, cur |-> 0, need |-> 0, ws |-> FALSE,
     result |-> "", error |-> "",
     \* for the properties: the middlewares, lookups and handlers invoked for
     \* the request ("Stop" follows a middleware that returned Flow::Stop),
     \* the response a middleware stopped with, and whether the last
     \* get_buffer took its buffer from the pool
     calls |-> <<>>, stop_res |-> ResponseDefault, pooled |-> FALSE]

Init ==
    /\ server = [phase |-> "build", router |-> AppRouter, ws_routes |-> {<<"ws">>},
                 middlewares |-> <<>>, async_middlewares |-> <<>>,
                 registered |-> <<>>]
    /\ pool = <<>>
    /\ dropped = 0
    /\ conn = [c \in Conns |-> IdleConn]
    /\ net = [c \in Conns |-> [incoming |-> <<>>, closed |-> FALSE, sent |-> 0,
                              out |-> <<>>, errs_before |-> 0]]
    /\ \E sc \in Scenarios :
          env = [scenario |-> sc, accepted |-> 0, requests |-> 0,
                 accept_errors |-> 0, io_errors |-> 0]
    /\ test = [count |-> 0, request |-> NoRequest, response |-> ResponseDefault,
               calls |-> <<>>, stopped |-> FALSE, stop_res |-> ResponseDefault]
    /\ routing = RoutingNew
    /\ resp = RespNone
    /\ scoped = ScopedNew
    /\ ctx = ContextNew
    /\ served = ServedNone
    /\ registry = PluginRegistryNew
    /\ room = WebSocketRoomNew

(* ------------------------------ the builder --------------------------- *)

\* Server::middleware (server.rs:135)
ServerMiddleware(mw) ==
    /\ server.phase = "build"
    /\ Len(server.registered) < env.scenario.middlewares
    /\ server' = [server EXCEPT !.middlewares = Append(@, mw),
                                !.registered = Append(@, mw)]
    /\ UNCHANGED <<pool, dropped, conn, net, env, test, routing, resp, scoped, ctx, served, registry, room>>

\* Server::async_middleware (server.rs:140)
ServerAsyncMiddleware(mw) ==
    /\ server.phase = "build"
    /\ Len(server.registered) < env.scenario.middlewares
    /\ server' = [server EXCEPT !.async_middlewares = Append(@, mw),
                                !.registered = Append(@, mw)]
    /\ UNCHANGED <<pool, dropped, conn, net, env, test, routing, resp, scoped, ctx, served, registry, room>>

(* ------------------------------ the listener -------------------------- *)

\* Server::listen up to the accept loop (server.rs:159-208)
Listen ==
    /\ server.phase = "build"
    /\ server' = [server EXCEPT !.phase = "listening"]
    /\ UNCHANGED <<pool, dropped, conn, net, env, test, routing, resp, scoped, ctx, served, registry, room>>

\* the tasks that ended with an error so far
FailedTasks == Cardinality({c \in Conns : conn[c].result = "err"})

\* One turn of the accept loop with accept() returning a connection
\* (server.rs:211-229): the task is spawned.
Accept ==
    /\ server.phase = "listening"
    /\ env.accepted < env.scenario.conns
    /\ LET c == env.accepted + 1
       IN /\ conn' = [conn EXCEPT ![c].pc = "start"]
          /\ net' = [net EXCEPT ![c].errs_before = FailedTasks]
    /\ env' = [env EXCEPT !.accepted = @ + 1]
    /\ UNCHANGED <<server, pool, dropped, test, routing, resp, scoped, ctx, served, registry, room>>

\* accept() returning Err: `listener.accept().await?` (server.rs:211)
\* returns the error from listen.
AcceptError ==
    /\ server.phase = "listening"
    /\ env.accept_errors < MaxAcceptErrors
    /\ server' = [server EXCEPT !.phase = "returned"]
    /\ env' = [env EXCEPT !.accept_errors = @ + 1]
    /\ UNCHANGED <<pool, dropped, conn, net, test, routing, resp, scoped, ctx, served, registry, room>>

\* the task's error ends the listener
SpawnedTaskResultPropagated(srv, result) ==
    IF result = "err" THEN [srv EXCEPT !.phase = "returned"] ELSE srv

\* The spawned closure (server.rs:222-229) on the task's result: an error
\* is printed, the listener is not told.
SpawnedTaskResult(srv, result) == srv

(* ------------------------------ the peers ----------------------------- *)

Connected(c) == conn[c].pc \notin {"idle", "done", "ws_open"}

ClientSend(c, r) ==
    /\ Connected(c)
    /\ ~net[c].closed
    /\ env.requests < MaxRequests
    /\ r \in env.scenario.templates
    /\ net' = [net EXCEPT ![c].incoming = @ \o Wire(r, net[c].sent + 1),
                          ![c].sent = @ + 1]
    /\ env' = [env EXCEPT !.requests = @ + 1]
    /\ UNCHANGED <<server, pool, dropped, conn, test, routing, resp, scoped, ctx, served, registry, room>>

\* the peer sends the header block of request r without its last unit,
\* the terminator never comes, and closes
ClientSendPart(c, r) ==
    /\ Connected(c)
    /\ ~net[c].closed
    /\ env.requests < MaxRequests
    /\ r \in env.scenario.templates
    /\ ClientRequests[r].hlen >= 2
    /\ net' = [net EXCEPT
           ![c].incoming = @ \o SubSeq(Wire(r, net[c].sent + 1), 1,
                                       ClientRequests[r].hlen - 1),
           ![c].sent = @ + 1,
           ![c].closed = TRUE]
    /\ env' = [env EXCEPT !.requests = @ + 1]
    /\ UNCHANGED <<server, pool, dropped, conn, test, routing, resp, scoped, ctx, served, registry, room>>

ClientClose(c) ==
    /\ Connected(c)
    /\ ~net[c].closed
    /\ net' = [net EXCEPT ![c].closed = TRUE]
    /\ UNCHANGED <<server, pool, dropped, conn, env, test, routing, resp, scoped, ctx, served, registry, room>>

(* ----------------------- handle_connection: helpers ------------------- *)

\* find_header_end (server.rs:483): units up to and including the first
\* terminator, 0 for None
FindHeaderEnd(buf) ==
    LET ends == {i \in 1..Len(buf) : buf[i].k = "end"}
    IN IF ends = {} THEN 0 ELSE CHOOSE i \in ends : \A j \in ends : i <= j

\* every terminated header block is taken as parsed
HttpParseLenient(t) == "Complete"

\* req.parse(&read_buf[..pos]) on a terminated header block
\* (server.rs:284, 285, 462)
HttpParse(t) == IF t.valid THEN "Complete" ELSE "Err"

RECURSIVE RunSyncMiddlewaresNoBreak(_, _, _, _, _)
\* the loop without the break after Flow::Stop
RunSyncMiddlewaresNoBreak(mws, i, req, res, calls) ==
    IF i > Len(mws)
    THEN [stopped |-> \E j \in 1..Len(calls) : calls[j] = "Stop",
          request |-> req, response |-> res, calls |-> calls, stop_res |-> res]
    ELSE LET flow == CallMiddleware(mws[i], req, res)
         IN IF flow.stop
            THEN RunSyncMiddlewaresNoBreak(mws, i + 1, req, flow.res,
                                           calls \o <<mws[i], "Stop">>)
            ELSE RunSyncMiddlewaresNoBreak(mws, i + 1, flow.req, flow.res,
                                           Append(calls, mws[i]))

RECURSIVE RunSyncMiddlewares(_, _, _, _, _)
\* The loop over the synchronous middlewares (server.rs:360-380, and
\* test.rs:51-63)
RunSyncMiddlewares(mws, i, req, res, calls) ==
    IF i > Len(mws)
    THEN [stopped |-> FALSE, request |-> req, response |-> res, calls |-> calls,
          stop_res |-> ResponseDefault]
    ELSE LET flow == CallMiddleware(mws[i], req, res)
         IN IF flow.stop
            THEN [stopped |-> TRUE, request |-> req, response |-> flow.res,
                  calls |-> calls \o <<mws[i], "Stop">>, stop_res |-> flow.res]
            ELSE RunSyncMiddlewares(mws, i + 1, flow.req, flow.res,
                                    Append(calls, mws[i]))

\* The task ends: handle_connection returns result.
Finished(cr, result, error) ==
    [IdleConn EXCEPT !.pc = "done", !.result = result, !.error = error,
                     !.cur = cr.cur, !.hdr = cr.hdr]

\* server.rs:286-380: the request is built from the parsed header block t
\* and the body, the response is created and the synchronous middlewares
\* run; the task then awaits the first asynchronous middleware, or the
\* handler, or goes on to write.
BeginExchange(cr, t, n, body) ==
    LET version == ParseVersion(t.version)
        ph == ParseHeaders(version, t.headers)
        request == RequestNew(t.method, t.path, version, ph.header_map, body)
        response == IF ph.keep_alive
                    THEN [ResponseDefault EXCEPT !.headers =
                             MapInsert(@, "Connection", "keep-alive")]
                    ELSE ResponseDefault
        sync == RunSyncMiddlewares(server.middlewares, 1, request, response, <<>>)
    IN [cr EXCEPT !.request = sync.request,
                  !.response = sync.response,
                  !.keep_alive = ph.keep_alive,
                  !.stopped = sync.stopped,
                  !.calls = sync.calls,
                  !.stop_res = sync.stop_res,
                  !.cur = n,
                  !.need = 0,
                  !.ws = FALSE,
                  !.idx = 1,
                  !.pc = IF sync.stopped THEN "write"
                         ELSE IF Len(server.async_middlewares) > 0 THEN "async_mw"
                         ELSE "dispatch"]

ReadLimit == BUFFER_SIZE * 2

CanRead(c) == conn[c].pc = "read" /\ Len(conn[c].read_buf) < ReadLimit

\* read_buf.resize(read_buf.len() + 4096, 0) (server.rs:268)
Resized(buf) == buf \o Zeros(READ_GROW)

\* 1 where return_buffer finds the pool full, else 0
Drops(p) == IF Len(p) < MAX_POOLED_BUFFERS THEN 0 ELSE 1

(* ----------------------- handle_connection: steps --------------------- *)

\* server.rs:255: the task takes its read buffer
TaskStart(c) ==
    /\ conn[c].pc = "start"
    /\ LET g == GetBuffer(pool)
       IN /\ pool' = g.pool
          /\ conn' = [conn EXCEPT ![c].pc = "top",
                                  ![c].read_buf = g.buf,
                                  ![c].pooled = (pool # <<>>)]
    /\ UNCHANGED <<server, dropped, net, env, test, routing, resp, scoped, ctx, served, registry, room>>

\* The top of the request loop (server.rs:257-261)
LoopTop(c) ==
    /\ conn[c].pc = "top"
    /\ conn' = [conn EXCEPT ![c].pc = "read",
                            ![c].read_buf = BufClear(@),
                            ![c].total_read = 0]
    /\ UNCHANGED <<server, pool, dropped, net, env, test, routing, resp, scoped, ctx, served, registry, room>>

\* server.rs:263-266: the size check fails
RejectTooLarge(c) ==
    /\ conn[c].pc = "read"
    /\ Len(conn[c].read_buf) >= ReadLimit
    /\ conn' = [conn EXCEPT ![c] = Finished(@, "err", "Request too large")]
    /\ server' = SpawnedTaskResult(server, "err")
    /\ UNCHANGED <<pool, dropped, net, env, test, routing, resp, scoped, ctx, served, registry, room>>

\* server.rs:268-467: read() returns Ok(n), n > 0
ReadData(c, n) ==
    /\ CanRead(c)
    /\ LET cr == conn[c]
           resized == Resized(cr.read_buf)
           total == cr.total_read + n
       IN /\ n <= Min(Len(resized) - cr.total_read, Len(net[c].incoming))
          /\ LET buf == [i \in 1..total |->
                            IF i > cr.total_read
                            THEN net[c].incoming[i - cr.total_read]
                            ELSE resized[i]]
                 pos == FindHeaderEnd(buf)
                 rest == SubSeq(net[c].incoming, n + 1, Len(net[c].incoming))
             IN IF pos = 0
                THEN \* no terminator yet: read again
                     /\ conn' = [conn EXCEPT ![c].read_buf = buf,
                                             ![c].total_read = total]
                     /\ net' = [net EXCEPT ![c].incoming = rest]
                     /\ UNCHANGED <<server, pool, dropped>>
                ELSE LET t == ClientRequests[buf[pos].r]
                         ph == ParseHeaders(ParseVersion(t.version), t.headers)
                         already_read == total - pos
                         copy_len == Min(already_read, ph.content_length)
                         body == SubSeq(buf, pos + 1, pos + copy_len)
                     IN IF HttpParse(t) = "Err"
                        THEN \* server.rs:462-465
                             /\ conn' = [conn EXCEPT ![c] =
                                    Finished([@ EXCEPT !.hdr = buf[pos].r,
                                                       !.cur = buf[pos].n],
                                             "err", "Invalid HTTP request")]
                             /\ pool' = ReturnBuffer(pool, buf)
                             /\ dropped' = dropped + Drops(pool)
                             /\ server' = SpawnedTaskResult(server, "err")
                             /\ net' = [net EXCEPT ![c].incoming = rest]
                        ELSE IF ph.content_length > 0 /\ already_read < ph.content_length
                        THEN \* the rest of the body is awaited (server.rs:325)
                             /\ conn' = [conn EXCEPT
                                    ![c].read_buf = buf,
                                    ![c].total_read = total,
                                    ![c].hdr = buf[pos].r,
                                    ![c].cur = buf[pos].n,
                                    ![c].request = [NoRequest EXCEPT !.body = body],
                                    ![c].need = ph.content_length - already_read,
                                    ![c].pc = "body"]
                             /\ net' = [net EXCEPT ![c].incoming = rest]
                             /\ UNCHANGED <<server, pool, dropped>>
                        ELSE /\ conn' = [conn EXCEPT ![c] =
                                    BeginExchange([@ EXCEPT !.read_buf = buf,
                                                            !.total_read = total,
                                                            !.hdr = buf[pos].r],
                                                  t, buf[pos].n, body)]
                             /\ net' = [net EXCEPT ![c].incoming = rest]
                             /\ UNCHANGED <<server, pool, dropped>>
    /\ UNCHANGED <<env, test, routing, resp, scoped, ctx, served, registry, room>>

\* a zero-byte read after which the read buffer is not given back
ReadEofKeepsBuffer(c) ==
    /\ CanRead(c)
    /\ net[c].incoming = <<>>
    /\ net[c].closed
    /\ conn' = [conn EXCEPT ![c] = Finished(@, "ok", "")]
    /\ server' = SpawnedTaskResult(server, "ok")
    /\ UNCHANGED <<pool, dropped, net, env, test, routing, resp, scoped, ctx, served, registry, room>>

\* read() returns Ok(0): the peer closed (server.rs:270-273)
ReadEof(c) ==
    /\ CanRead(c)
    /\ net[c].incoming = <<>>
    /\ net[c].closed
    /\ pool' = ReturnBuffer(pool, Resized(conn[c].read_buf))
    /\ dropped' = dropped + Drops(pool)
    /\ conn' = [conn EXCEPT ![c] = Finished(@, "ok", "")]
    /\ server' = SpawnedTaskResult(server, "ok")
    /\ UNCHANGED <<net, env, test, routing, resp, scoped, ctx, served, registry, room>>

\* read() returns Err(WouldBlock) (server.rs:469-472): the buffer keeps
\* the length it was resized to
ReadWouldBlock(c) ==
    /\ CanRead(c)
    /\ net[c].incoming = <<>>
    /\ ~net[c].closed
    /\ conn' = [conn EXCEPT ![c].read_buf = Resized(@)]
    /\ UNCHANGED <<server, pool, dropped, net, env, test, routing, resp, scoped, ctx, served, registry, room>>

\* read() returns another error (server.rs:473-476)
ReadError(c) ==
    /\ CanRead(c)
    /\ env.io_errors < MaxIoErrors
    /\ env' = [env EXCEPT !.io_errors = @ + 1]
    /\ pool' = ReturnBuffer(pool, Resized(conn[c].read_buf))
    /\ dropped' = dropped + Drops(pool)
    /\ conn' = [conn EXCEPT ![c] = Finished(@, "err", "io")]
    /\ server' = SpawnedTaskResult(server, "err")
    /\ UNCHANGED <<net, test, routing, resp, scoped, ctx, served, registry, room>>

\* a body whose bytes read with the headers are not copied: that part of
\* body_data keeps the zeros it was made with
ReadBodyNoCopy(c) ==
    /\ conn[c].pc = "body"
    /\ Len(net[c].incoming) >= conn[c].need
    /\ LET cr == conn[c]
           body == Zeros(Len(cr.request.body)) \o SubSeq(net[c].incoming, 1, cr.need)
       IN conn' = [conn EXCEPT ![c] =
                      BeginExchange(@, ClientRequests[cr.hdr], cr.cur, body)]
    /\ net' = [net EXCEPT ![c].incoming =
                  SubSeq(@, conn[c].need + 1, Len(@))]
    /\ UNCHANGED <<server, pool, dropped, env, test, routing, resp, scoped, ctx, served, registry, room>>

\* read_exact fills the rest of the body (server.rs:326)
ReadBody(c) ==
    /\ conn[c].pc = "body"
    /\ Len(net[c].incoming) >= conn[c].need
    /\ LET cr == conn[c]
           body == cr.request.body \o SubSeq(net[c].incoming, 1, cr.need)
       IN conn' = [conn EXCEPT ![c] =
                      BeginExchange(@, ClientRequests[cr.hdr], cr.cur, body)]
    /\ net' = [net EXCEPT ![c].incoming =
                  SubSeq(@, conn[c].need + 1, Len(@))]
    /\ UNCHANGED <<server, pool, dropped, env, test, routing, resp, scoped, ctx, served, registry, room>>

\* read_exact fails, by end of stream or by an I/O error: `?` returns the
\* error (server.rs:326)
ReadBodyError(c) ==
    /\ conn[c].pc = "body"
    /\ \/ /\ Len(net[c].incoming) < conn[c].need
          /\ net[c].closed
          /\ env' = env
       \/ /\ env.io_errors < MaxIoErrors
          /\ env' = [env EXCEPT !.io_errors = @ + 1]
    /\ conn' = [conn EXCEPT ![c] = Finished(@, "err", "io")]
    /\ net' = [net EXCEPT ![c].incoming = <<>>]
    /\ server' = SpawnedTaskResult(server, "err")
    /\ UNCHANGED <<pool, dropped, test, routing, resp, scoped, ctx, served, registry, room>>

\* One asynchronous middleware is awaited (server.rs:384-403)
AsyncMiddlewareStep(c) ==
    /\ conn[c].pc = "async_mw"
    /\ LET cr == conn[c]
           mw == server.async_middlewares[cr.idx]
           flow == CallMiddleware(mw, cr.request, cr.response)
       IN conn' = [conn EXCEPT ![c] =
             IF flow.stop
             THEN [cr EXCEPT !.response = flow.res, !.stopped = TRUE,
                             !.stop_res = flow.res,
                             !.calls = @ \o <<mw, "Stop">>, !.pc = "write"]
             ELSE [cr EXCEPT !.request = flow.req, !.response = flow.res,
                             !.calls = Append(@, mw), !.idx = @ + 1,
                             !.pc = IF cr.idx = Len(server.async_middlewares)
                                    THEN "dispatch" ELSE "async_mw"]]
    /\ UNCHANGED <<server, pool, dropped, net, env, test, routing, resp, scoped, ctx, served, registry, room>>

\* a 404 response without a body
NotFoundResponseEmpty(keep_alive) ==
    LET r == ResponseNew(404, <<>>)
    IN IF keep_alive
       THEN [r EXCEPT !.headers = MapInsert(@, "Connection", "keep-alive")]
       ELSE r

\* Response::new(StatusCode::NotFound, b"Not Found\n") with the keep-alive
\* header (server.rs:434-443)
NotFoundResponse(keep_alive) ==
    LET r == ResponseNew(404, <<Text("Not Found"), Text("LF")>>)
    IN IF keep_alive
       THEN [r EXCEPT !.headers = MapInsert(@, "Connection", "keep-alive")]
       ELSE r

\* a dispatch that upgrades without looking for a WebSocket handler
DispatchAnyPath(c) ==
    /\ conn[c].pc = "dispatch"
    /\ LET cr == conn[c]
           up == WebsocketUpgrade(cr.request)
           found == RouterFind(server.router, cr.request.method, cr.request.path)
       IN conn' = [conn EXCEPT ![c] =
             IF /\ IsWebsocketUpgrade(cr.request)
                /\ up.some
             THEN [cr EXCEPT !.response = up.res, !.ws = TRUE, !.pc = "write",
                             !.calls = Append(@, "websocket_upgrade")]
             ELSE IF found.found
             THEN [cr EXCEPT !.request.params = found.params,
                             !.response = HandlerCall(found.handler,
                                 [cr.request EXCEPT !.params = found.params],
                                 cr.response),
                             !.calls = @ \o <<"find", found.handler>>,
                             !.pc = "write"]
             ELSE [cr EXCEPT !.response = NotFoundResponse(cr.keep_alive),
                             !.calls = Append(@, "find"),
                             !.pc = "write"]]
    /\ UNCHANGED <<server, pool, dropped, net, env, test, routing, resp, scoped, ctx, served, registry, room>>

\* server.rs:407-445: the upgrade check, then the router lookup and the
\* handler, or the 404 response
Dispatch(c) ==
    /\ conn[c].pc = "dispatch"
    /\ LET cr == conn[c]
           up == WebsocketUpgrade(cr.request)
           found == RouterFind(server.router, cr.request.method, cr.request.path)
       IN conn' = [conn EXCEPT ![c] =
             IF /\ IsWebsocketUpgrade(cr.request)
                /\ cr.request.path \in server.ws_routes
                /\ up.some
             THEN [cr EXCEPT !.response = up.res, !.ws = TRUE, !.pc = "write",
                             !.calls = Append(@, "websocket_upgrade")]
             ELSE IF found.found
             THEN [cr EXCEPT !.request.params = found.params,
                             !.response = HandlerCall(found.handler,
                                 [cr.request EXCEPT !.params = found.params],
                                 cr.response),
                             !.calls = @ \o <<"find", found.handler>>,
                             !.pc = "write"]
             ELSE [cr EXCEPT !.response = NotFoundResponse(cr.keep_alive),
                             !.calls = Append(@, "find"),
                             !.pc = "write"]]
    /\ UNCHANGED <<server, pool, dropped, net, env, test, routing, resp, scoped, ctx, served, registry, room>>

\* the keep_alive argument of write_response: false for the upgrade
\* response (server.rs:414), keep_alive otherwise (server.rs:448)
WriteKeepAlive(cr) == IF cr.ws THEN FALSE ELSE cr.keep_alive

\* headers prepared with the Connection value the response came with
PrepareHeadersKeepConnection(res, keep_alive) ==
    LET h2 == IF ~res.streaming
              THEN MapInsert(res.headers, "Content-Length", LenToString(Len(res.body)))
              ELSE res.headers
    IN IF "Content-Type" \in DOMAIN h2 THEN h2
       ELSE MapInsert(h2, "Content-Type", "text/plain; charset=utf-8")

\* headers prepared without setting Content-Length from the body
PrepareHeadersKeepLength(res, keep_alive) ==
    LET h1 == MapInsert(res.headers, "Connection",
                        IF keep_alive THEN "keep-alive" ELSE "close")
    IN IF "Content-Type" \in DOMAIN h1 THEN h1
       ELSE MapInsert(h1, "Content-Type", "text/plain; charset=utf-8")

\* write_response up to the first write (server.rs:548-587): the headers
\* are fixed and serialized into a pooled buffer
PrepareHeaders(res, keep_alive) ==
    LET h1 == MapInsert(res.headers, "Connection",
                        IF keep_alive THEN "keep-alive" ELSE "close")
        h2 == IF ~res.streaming
              THEN MapInsert(h1, "Content-Length", LenToString(Len(res.body)))
              ELSE h1
    IN IF "Content-Type" \in DOMAIN h2 THEN h2
       ELSE MapInsert(h2, "Content-Type", "text/plain; charset=utf-8")

WriteBegin(c) ==
    /\ conn[c].pc = "write"
    /\ LET cr == conn[c]
           g == GetBuffer(pool)
           res == [cr.response EXCEPT !.headers =
                      PrepareHeaders(cr.response, WriteKeepAlive(cr))]
       IN /\ pool' = g.pool
          /\ conn' = [conn EXCEPT ![c].response = res,
                                  ![c].write_buf = Append(g.buf,
                                      [k |-> "head", r |-> res.status, n |-> cr.cur]),
                                  ![c].pooled = (pool # <<>>),
                                  ![c].pc = "w_hdr"]
    /\ UNCHANGED <<server, dropped, net, env, test, routing, resp, scoped, ctx, served, registry, room>>

\* the headers are written and the task reads the next request while the
\* body is still to be written
WriteHeadersThenLoop(c) ==
    /\ conn[c].pc = "w_hdr"
    /\ net' = [net EXCEPT ![c].out = Append(@,
                  [n |-> conn[c].cur, r |-> conn[c].hdr,
                   status |-> conn[c].response.status,
                   headers |-> conn[c].response.headers,
                   raw |-> conn[c].write_buf,
                   body |-> <<>>, complete |-> FALSE, next |-> "",
                   calls |-> conn[c].calls, stopped |-> conn[c].stopped,
                   stop_res |-> conn[c].stop_res, ws |-> conn[c].ws,
                   keep_alive |-> conn[c].keep_alive,
                   errs |-> FailedTasks])]
    /\ pool' = ReturnBuffer(pool, conn[c].write_buf)
    /\ dropped' = dropped + Drops(pool)
    /\ conn' = [conn EXCEPT ![c].write_buf = <<>>, ![c].pc = "top"]
    /\ UNCHANGED <<server, env, test, routing, resp, scoped, ctx, served, registry, room>>

\* socket.write_all(&write_buf) succeeds; return_buffer(write_buf)
\* (server.rs:590-591)
WriteHeaders(c) ==
    /\ conn[c].pc = "w_hdr"
    /\ net' = [net EXCEPT ![c].out = Append(@,
                  [n |-> conn[c].cur, r |-> conn[c].hdr,
                   status |-> conn[c].response.status,
                   headers |-> conn[c].response.headers,
                   raw |-> conn[c].write_buf,
                   body |-> <<>>, complete |-> FALSE, next |-> "",
                   \* for the properties
                   calls |-> conn[c].calls, stopped |-> conn[c].stopped,
                   stop_res |-> conn[c].stop_res, ws |-> conn[c].ws,
                   keep_alive |-> conn[c].keep_alive,
                   errs |-> FailedTasks])]
    /\ pool' = ReturnBuffer(pool, conn[c].write_buf)
    /\ dropped' = dropped + Drops(pool)
    /\ conn' = [conn EXCEPT ![c].write_buf = <<>>, ![c].pc = "w_body"]
    /\ UNCHANGED <<server, env, test, routing, resp, scoped, ctx, served, registry, room>>

\* The body is written (server.rs:594-601) and write_response returns Ok;
\* then the socket goes to the WebSocket handler (server.rs:417), or the
\* task ends (server.rs:450-453), or the request loop starts over
\* (server.rs:456, 259-261)
AfterResponse(cr) ==
    IF cr.ws THEN "websocket" ELSE IF ~cr.keep_alive THEN "return" ELSE "loop"

WriteBody(c) ==
    /\ conn[c].pc = "w_body"
    /\ LET cr == conn[c]
       IN /\ net' = [net EXCEPT ![c].out[Len(net[c].out)] =
                        [@ EXCEPT !.body = cr.response.body, !.complete = TRUE,
                                  !.next = AfterResponse(cr)]]
          /\ IF AfterResponse(cr) = "websocket"
             THEN /\ conn' = [conn EXCEPT ![c].pc = "ws_open"]
                  /\ UNCHANGED <<server, pool, dropped>>
             ELSE IF AfterResponse(cr) = "return"
             THEN /\ conn' = [conn EXCEPT ![c] = Finished(@, "ok", "")]
                  /\ pool' = ReturnBuffer(pool, cr.read_buf)
                  /\ dropped' = dropped + Drops(pool)
                  /\ server' = SpawnedTaskResult(server, "ok")
             ELSE /\ conn' = [conn EXCEPT ![c] =
                                 [IdleConn EXCEPT !.pc = "top",
                                                  !.read_buf = cr.read_buf]]
                  /\ UNCHANGED <<server, pool, dropped>>
    /\ UNCHANGED <<env, test, routing, resp, scoped, ctx, served, registry, room>>

\* A write fails: `?` returns the error from write_response and from
\* handle_connection (server.rs:590, 596, 448, 414)
WriteError(c) ==
    /\ conn[c].pc \in {"w_hdr", "w_body"}
    /\ env.io_errors < MaxIoErrors
    /\ env' = [env EXCEPT !.io_errors = @ + 1]
    /\ conn' = [conn EXCEPT ![c] = Finished(@, "err", "io")]
    /\ server' = SpawnedTaskResult(server, "err")
    /\ UNCHANGED <<pool, dropped, net, test, routing, resp, scoped, ctx, served, registry, room>>

\* The WebSocket handler returns (server.rs:418-422)
WebSocketDone(c) ==
    /\ conn[c].pc = "ws_open"
    /\ pool' = ReturnBuffer(pool, conn[c].read_buf)
    /\ dropped' = dropped + Drops(pool)
    /\ conn' = [conn EXCEPT ![c] = Finished(@, "ok", "")]
    /\ server' = SpawnedTaskResult(server, "ok")
    /\ UNCHANGED <<net, env, test, routing, resp, scoped, ctx, served, registry, room>>

(* ------------------------------ TestClient ---------------------------- *)

\* TestClient::new (test.rs:13): the router and the synchronous middlewares
TestNew ==
    /\ server.phase = "build"
    /\ server' = [server EXCEPT !.phase = "test"]
    /\ UNCHANGED <<pool, dropped, conn, net, env, test, routing, resp, scoped, ctx, served, registry, room>>

\* an execute that calls the handler with a fresh response
ExecuteFreshResponse(request) ==
    LET mw == RunSyncMiddlewares(server.middlewares, 1, request, ResponseDefault, <<>>)
        found == RouterFind(server.router, mw.request.method, mw.request.path)
    IN IF mw.stopped
       THEN [response |-> mw.response, calls |-> mw.calls,
             stopped |-> TRUE, stop_res |-> mw.stop_res]
       ELSE IF found.found
       THEN [response |-> HandlerCall(found.handler,
                              [mw.request EXCEPT !.params = found.params],
                              ResponseDefault),
             calls |-> mw.calls \o <<"find", found.handler>>,
             stopped |-> FALSE, stop_res |-> mw.stop_res]
       ELSE [response |-> ResponseNew(404, <<Text("Not Found")>>),
             calls |-> Append(mw.calls, "find"),
             stopped |-> FALSE, stop_res |-> mw.stop_res]

\* TestClient::execute (test.rs:46)
Execute(request) ==
    LET mw == RunSyncMiddlewares(server.middlewares, 1, request, ResponseDefault, <<>>)
        found == RouterFind(server.router, mw.request.method, mw.request.path)
    IN IF mw.stopped
       THEN [response |-> mw.response, calls |-> mw.calls,
             stopped |-> TRUE, stop_res |-> mw.stop_res]
       ELSE IF found.found
       THEN [response |-> HandlerCall(found.handler,
                              [mw.request EXCEPT !.params = found.params],
                              mw.response),
             calls |-> mw.calls \o <<"find", found.handler>>,
             stopped |-> FALSE, stop_res |-> mw.stop_res]
       ELSE [response |-> ResponseNew(404, <<Text("Not Found")>>),
             calls |-> Append(mw.calls, "find"),
             stopped |-> FALSE, stop_res |-> mw.stop_res]

\* the requests made through the test client
TestRequests == {
    RequestNew("GET", <<"hello">>, "Http11", EmptyHeaders, <<>>),
    RequestNew("GET", <<"missing">>, "Http11", EmptyHeaders, <<>>),
    RequestNew("POST", <<"echo">>, "Http11", EmptyHeaders, <<Text("test data")>>) }

\* TestRequest::send (test.rs:141)
TestSend(request) ==
    /\ server.phase = "test"
    /\ test.count < MaxTestRequests
    /\ LET e == Execute(request)
       IN test' = [count |-> test.count + 1, request |-> request,
                   response |-> e.response, calls |-> e.calls,
                   stopped |-> e.stopped, stop_res |-> e.stop_res]
    /\ UNCHANGED <<server, pool, dropped, conn, net, env, routing, resp, scoped, ctx, served, registry, room>>

(* ------------------------------ specification ------------------------- *)

Next ==
    \/ \E mw \in SyncMiddlewareNames : ServerMiddleware(mw)
    \/ \E mw \in AsyncMiddlewareNames : ServerAsyncMiddleware(mw)
    \/ Listen
    \/ Accept
    \/ AcceptError
    \/ TestNew
    \/ \E q \in TestRequests : TestSend(q)
    \/ \E c \in Conns :
          \/ \E r \in 1..Len(ClientRequests) : ClientSend(c, r)
          \/ \E r \in 1..Len(ClientRequests) : ClientSendPart(c, r)
          \/ ClientClose(c)
          \/ TaskStart(c)
          \/ LoopTop(c)
          \/ RejectTooLarge(c)
          \/ \E n \in 1..(ReadLimit + READ_GROW) : ReadData(c, n)
          \/ ReadEof(c)
          \/ ReadWouldBlock(c)
          \/ ReadError(c)
          \/ ReadBody(c)
          \/ ReadBodyError(c)
          \/ AsyncMiddlewareStep(c)
          \/ Dispatch(c)
          \/ WriteBegin(c)
          \/ WriteHeaders(c)
          \/ WriteBody(c)
          \/ WriteError(c)
          \/ WebSocketDone(c)

Spec == Init /\ [][Next]_vars

(* ------------------------------ properties ---------------------------- *)

\* the responses completely written on connection c
Responses(c) == {i \in 1..Len(net[c].out) : net[c].out[i].complete}

\* the middleware names among the calls made for a request
MiddlewareCalls(calls) ==
    SelectSeq(calls, LAMBDA x : x \in SyncMiddlewareNames \cup AsyncMiddlewareNames)

IsPrefix(a, b) == Len(a) <= Len(b) /\ SubSeq(b, 1, Len(a)) = a

\* The request carries a Connection header whose value is v, whatever the
\* case of name and value.
HasConnection(t, v) ==
    \E i \in 1..Len(t.headers) :
        /\ EqIgnoreAsciiCase(t.headers[i][1], "connection")
        /\ EqIgnoreAsciiCase(t.headers[i][2], v)

\* the keep-alive rule of HTTP as the specification states it
KeepAliveRule(t) ==
    \/ t.version = 1 /\ ~HasConnection(t, "close")
    \/ t.version = 0 /\ HasConnection(t, "keep-alive")

\* C1: after a response of the request/response cycle is written, the task
\* goes back to reading headers exactly when the request was HTTP/1.1
\* without "Connection: close", or an earlier version with "Connection:
\* keep-alive"; otherwise the task ends.  (Refuted: an HTTP/1.1 request with
\* "Connection: Upgrade" is answered and the task ends.)
C1_KeepAliveRule ==
    \A c \in Conns : \A i \in Responses(c) :
        LET e == net[c].out[i]
        IN ~e.ws =>
             /\ e.next \in {"loop", "return"}
             /\ e.next = "loop" <=> KeepAliveRule(ClientRequests[e.r])

\* C2: a failed accept() does not end the listener: listen has not returned.
\* (Refuted: the `?` on accept() returns the error from listen.)
C2_AcceptErrorKeepsListening ==
    env.accept_errors > 0 => server.phase = "listening"

\* C3: the middlewares run for a request in the order of their
\* registration, synchronous and asynchronous ones interleaved as they were
\* registered, and the handler runs only after all of them.  (Refuted: the
\* synchronous ones all run before the asynchronous ones.)
C3_RegistrationOrder ==
    \A c \in Conns :
        /\ IsPrefix(MiddlewareCalls(conn[c].calls), server.registered)
        /\ (\E i \in 1..Len(conn[c].calls) : conn[c].calls[i] = "find")
              => MiddlewareCalls(conn[c].calls) = server.registered

\* the order in which handle_connection goes through the middlewares
ExecutionOrder == server.middlewares \o server.async_middlewares

\* A middleware returned Stop among calls.
Stopped(calls) == \E i \in 1..Len(calls) : calls[i] = "Stop"

\* Where a middleware returned Stop(R), nothing was invoked after it, the
\* middlewares before it ran in the order given, and the response has the
\* status and the body of R.
StopEndsExchange(calls, order, stop_res, status, body) ==
    Stopped(calls) =>
        /\ calls[Len(calls)] = "Stop"
        /\ \A i \in 1..(Len(calls) - 1) : calls[i] \notin {"Stop", "find", "websocket_upgrade",
                                                          "hello_handler", "echo_handler"}
        /\ IsPrefix(MiddlewareCalls(calls), order)
        /\ status = stop_res.status
        /\ body = stop_res.body

\* the middleware that stops every request of ClientRequests and
\* TestRequests (none carries an Authorization header) is the first to run
AlwaysStops == server.middlewares # <<>> /\ server.middlewares[1] = "auth_middleware"

\* C4: once a middleware returns Flow::Stop(R), no later middleware runs,
\* no WebSocket upgrade is attempted, Router::find is not called, no handler
\* is invoked, and the response written (handle_connection) or returned
\* (TestClient::execute) has the status and body of R; behind a middleware
\* that always stops with 401 every path answers 401.
C4_StopShortCircuits ==
    /\ \A c \in Conns :
          /\ StopEndsExchange(conn[c].calls, ExecutionOrder, conn[c].stop_res,
                              conn[c].response.status, conn[c].response.body)
          /\ Stopped(conn[c].calls) => ~conn[c].ws
          /\ \A i \in 1..Len(net[c].out) :
                LET e == net[c].out[i]
                IN /\ StopEndsExchange(e.calls, ExecutionOrder, e.stop_res, e.status,
                                       IF e.complete THEN e.body ELSE e.stop_res.body)
                   /\ AlwaysStops => e.status = 401
    /\ StopEndsExchange(test.calls, server.middlewares, test.stop_res,
                        test.response.status, test.response.body)
    /\ (AlwaysStops /\ test.count > 0) => test.response.status = 401

\* C4 witness: a response to an unregistered path was written after the
\* first of two middlewares stopped the request.
C4_Witness ==
    \E c \in Conns : \E i \in Responses(c) :
        LET e == net[c].out[i]
        IN /\ Stopped(e.calls)
           /\ ClientRequests[e.r].path = <<"missing">>
           /\ Len(server.registered) = 2
           /\ Len(MiddlewareCalls(e.calls)) = 1
           /\ e.status = 401

\* C5: on a connection the responses are written in the order of the
\* requests, and no request is parsed, passed to a middleware or
\* dispatched while an earlier response is not completely written.
C5_Sequential ==
    \A c \in Conns :
        LET out == net[c].out
        IN /\ \A i, j \in 1..Len(out) : i < j => out[i].n < out[j].n
           /\ \A i \in 1..(Len(out) - 1) : out[i].complete
           /\ (Len(out) > 0 /\ ~out[Len(out)].complete)
                 => conn[c].pc \in {"w_body", "done"}
           /\ conn[c].pc \in {"body", "async_mw", "dispatch", "write", "w_hdr"}
                 => \A i \in 1..Len(out) : out[i].complete /\ out[i].n < conn[c].cur

\* C5 witness: the second request of a connection is being handled after
\* the first response was written.
C5_Witness ==
    \E c \in Conns :
        /\ Len(net[c].out) = 1
        /\ net[c].out[1].complete
        /\ conn[c].pc = "dispatch"
        /\ conn[c].cur = 2

\* A task ended with an error in this step.
Fails(d) == conn[d].pc # "done" /\ conn'[d].pc = "done" /\ conn'[d].result = "err"

\* C6: when a connection's task ends with an error (read error, write
\* error, malformed or oversized request), the listener and every other
\* connection are as they were: the other tasks, their sockets and the
\* bytes written on them are unchanged, and the accept loop is where it was.
C6_ErrorsAreLocal ==
    [][\A d \in Conns :
          Fails(d) => /\ server' = server
                      /\ \A c \in Conns \ {d} : conn'[c] = conn[c] /\ net'[c] = net[c]]_vars

\* C6 witness: a connection accepted after another task's error got its
\* response, written after that error.
C6_Witness ==
    \E c, d \in Conns :
        /\ c # d
        /\ conn[d].result = "err"
        /\ net[c].errs_before > 0
        /\ \E i \in Responses(c) : net[c].out[i].status = 200 /\ net[c].out[i].errs > 0

\* C7: the pool never holds more than MAX_POOLED_BUFFERS buffers, and a
\* return_buffer that finds the pool full leaves the pool as it was.
C7_PoolBounded ==
    /\ [](Len(pool) <= MAX_POOLED_BUFFERS)
    /\ [][dropped' # dropped => (Len(pool) = MAX_POOLED_BUFFERS /\ pool' = pool)]_vars

\* C7 witness: a buffer was returned to a full pool.
C7_Witness == dropped > 0 /\ Len(pool) = MAX_POOLED_BUFFERS

\* C8: every buffer in the pool is empty, the read buffer a task got from
\* get_buffer is empty, and the header buffer of write_response holds the
\* serialized head and nothing from before.
C8_NoStaleData ==
    /\ \A i \in 1..Len(pool) : Len(pool[i]) = 0
    /\ \A c \in Conns :
          /\ (conn[c].pc = "top" /\ net[c].out = <<>>) => Len(conn[c].read_buf) = 0
          /\ conn[c].pc = "w_hdr" =>
                conn[c].write_buf = <<[k |-> "head", r |-> conn[c].response.status,
                                       n |-> conn[c].cur]>>
          /\ \A i \in 1..Len(net[c].out) : Len(net[c].out[i].raw) = 1

\* C8 witness: a task serialized a response head into a buffer taken from
\* the pool, where a used buffer had been put.
C8_Witness ==
    \E c \in Conns : conn[c].pc = "w_hdr" /\ conn[c].pooled

\* C9: a header block that cannot be parsed ends the task with an error;
\* no middleware and no handler runs for it and nothing is written for it.
C9_MalformedDropsConnection ==
    \A c \in Conns :
        /\ conn[c].hdr # 0 /\ ~ClientRequests[conn[c].hdr].valid =>
              /\ conn[c].pc = "done"
              /\ conn[c].result = "err"
              /\ conn[c].error = "Invalid HTTP request"
              /\ conn[c].calls = <<>>
        /\ \A i \in 1..Len(net[c].out) :
              /\ ClientRequests[net[c].out[i].r].valid
              /\ conn[c].error = "Invalid HTTP request" => net[c].out[i].n < conn[c].cur

\* C9 witness: the second request of a connection was malformed; the
\* first response is all that was written.
C9_Witness ==
    \E c \in Conns :
        /\ conn[c].error = "Invalid HTTP request"
        /\ conn[c].cur = 2
        /\ Len(net[c].out) = 1

\* No route of the server matches the request.
NoRoute(method, path) == ~RouterFind(server.router, method, path).found

\* C10: when no route matches and no middleware stopped the request (and it
\* is not upgraded), the response is a 404 with a body; handle_connection
\* then reads the next request if the request negotiated keep-alive.
C10_NotFound ==
    /\ \A c \in Conns : \A i \in Responses(c) :
          LET e == net[c].out[i]
              t == ClientRequests[e.r]
          IN (NoRoute(t.method, t.path) /\ ~Stopped(e.calls) /\ ~e.ws) =>
                /\ e.status = 404
                /\ Len(e.body) > 0
                /\ e.headers["Content-Length"] = LenToString(Len(e.body))
                /\ ParseHeaders(ParseVersion(t.version), t.headers).keep_alive
                      => e.next = "loop"
    /\ (test.count > 0 /\ NoRoute(test.request.method, test.request.path)
          /\ ~Stopped(test.calls)) =>
             /\ test.response.status = 404
             /\ Len(test.response.body) > 0

\* C10 witness: after a 404 on a keep-alive connection the next request on
\* it was answered.
C10_Witness ==
    \E c \in Conns :
        /\ Len(net[c].out) = 2
        /\ net[c].out[1].status = 404
        /\ net[c].out[1].next = "loop"
        /\ net[c].out[2].complete
        /\ net[c].out[2].status = 200

(* ------------------------- the router on its own ---------------------- *)
\* A path string is the sequence of its '/' separators and of the text
\* between them: "/users/:id" is <<"/", "users", "/", ":id">>.

\* routes added to the router, and lookups made of it, in one experiment
MaxRoutes == 3

\* path.split('/').filter(|s| !s.is_empty()).collect() (router.rs:30, 68)
SplitPath(path) == SelectSeq(path, LAMBDA s : s # "/" /\ s # "")

\* part.starts_with(':') (router.rs:43)
StartsWithColon(part) == part \in {":id", ":uid", ":name"}

\* part[1..] (router.rs:44)
AfterColon(part) ==
    CASE part = ":id" -> "id"
      [] part = ":uid" -> "uid"
      [] part = ":name" -> "name"
      [] OTHER -> part

\* router.rs:43-47: a segment that starts with ':' is a parameter
RoutePart(part) ==
    IF StartsWithColon(part)
    THEN [param |-> TRUE, name |-> AfterColon(part)]
    ELSE [param |-> FALSE, name |-> part]

\* the parts of a route path as insert_parts takes them
RoutePath(path) ==
    LET parts == SplitPath(path) IN [i \in 1..Len(parts) |-> RoutePart(parts[i])]

\* the method strings routes are added with, and the methods looked up
RouteMethods == {"GET", "post"}
FindMethods == {"GET", "POST"}

\* the route paths added
RoutePaths == {
    <<"/", "users", "/", "new">>,
    <<"/", "users", "/", ":id">>,
    <<"/", "users", "/", ":uid", "/", "posts">>,
    <<"/", "hello", "/", ":name">>,
    <<"/", "users">>,
    <<"/", "files", "/", "*">>,
    <<"/">> }

\* the request paths looked up
RequestPaths == {
    <<"/", "users", "/", "new">>,
    <<"/", "users", "/", "42">>,
    <<"/", "users", "/", "42", "/", "posts">>,
    <<"/", "users", "/", "new", "/", "posts">>,
    <<"/", "hello", "/", "John">>,
    <<"/", "users", "/">>,
    <<"/", "", "/", "users">>,
    <<"/">>,
    <<"/", "files", "/", "*">>,
    <<"/", "files", "/", "a.txt">>,
    <<"/", "files", "/", "*", "/", "a.txt">>,
    <<"/", "other">> }

\* the handler passed with the k-th add_route
HandlerName(k) ==
    CASE k = 1 -> "h1"
      [] k = 2 -> "h2"
      [] k = 3 -> "h3"
      [] k = 4 -> "h4"
      [] OTHER -> "h5"

\* Router::add_route (router.rs:131) through RadixNode::insert (router.rs:29)
RouteAdd(method, path) ==
    /\ Len(routing.routes) < MaxRoutes
    /\ LET handler == HandlerName(Len(routing.routes) + 1)
       IN routing' = [RoutingNew EXCEPT
              !.router = AddRoute(routing.router, method, RoutePath(path), handler),
              !.before = routing.router,
              !.routes = Append(routing.routes,
                                [method |-> method, path |-> path, handler |-> handler])]
    /\ UNCHANGED <<server, pool, dropped, conn, net, env, test, resp, scoped, ctx, served, registry, room>>

\* Router::find (router.rs:135) through RadixNode::search (router.rs:67)
RouteFind(method, path) ==
    /\ routing.routes # <<>>
    /\ routing' = [routing EXCEPT
           !.asked = TRUE, !.method = method, !.path = path,
           !.result = RouterFind(routing.router, method, SplitPath(path))]
    /\ UNCHANGED <<server, pool, dropped, conn, net, env, test, resp, scoped, ctx, served, registry, room>>

RouterInit == Init /\ env.scenario.middlewares = 0

RouterNext ==
    \/ \E method \in RouteMethods : \E path \in RoutePaths : RouteAdd(method, path)
    \/ \E method \in FindMethods : \E path \in RequestPaths : RouteFind(method, path)

RouterSpec == RouterInit /\ [][RouterNext]_vars

(* ------------------------- properties of the router ------------------- *)

\* the parts of the i-th route added
RouteSegs(i) == RoutePath(routing.routes[i].path)

\* the i-th route has no parameter segment
RouteIsLiteral(i) == \A k \in 1..Len(RouteSegs(i)) : ~RouteSegs(i)[k].param

\* the parts of a route with the names of its parameters left out
Shape(segs) ==
    [k \in 1..Len(segs) |-> IF segs[k].param THEN [param |-> TRUE, name |-> ""] ELSE segs[k]]

\* routes i and j are for the same method, whatever its case
SameMethod(i, j) == ToUpper(routing.routes[i].method) = ToUpper(routing.routes[j].method)

\* Routes i and j are the same route: same method and the same segments,
\* the names of parameters aside.
SameRoute(i, j) == SameMethod(i, j) /\ Shape(RouteSegs(i)) = Shape(RouteSegs(j))

\* the handler last added for the i-th route
HandlerOf(i) ==
    LET same == {j \in 1..Len(routing.routes) : SameRoute(i, j)}
    IN routing.routes[CHOOSE j \in same : \A k \in same : k <= j].handler

\* the lookup made was for the method of route i
AskedMethod(i) == ToUpper(routing.routes[i].method) = ToUpper(routing.method)

\* the segments of the request path looked up
AskedParts == SplitPath(routing.path)

\* Route i matches the request parts segment by segment.
Matches(i, parts) ==
    /\ Len(RouteSegs(i)) = Len(parts)
    /\ \A k \in 1..Len(parts) : RouteSegs(i)[k].param \/ RouteSegs(i)[k].name = parts[k]

\* Routes i (literal) and j share a parent where j has a parameter: they
\* agree up to a position at which i has a literal and j a parameter.
LiteralBesideParameter(i, j) ==
    /\ RouteIsLiteral(i)
    /\ SameMethod(i, j)
    /\ Len(RouteSegs(i)) = Len(RouteSegs(j))
    /\ \E k \in 1..Len(RouteSegs(j)) :
          /\ RouteSegs(j)[k].param
          /\ SubSeq(RouteSegs(i), 1, k - 1) = SubSeq(RouteSegs(j), 1, k - 1)

\* C11: where a literal route and a parameter route under the same parent
\* are both registered for the method, in either order, a lookup of the
\* literal path returns the literal route's handler and captures nothing.
C11_LiteralBeforeParameter ==
    routing.asked =>
        \A i, j \in 1..Len(routing.routes) :
            (LiteralBesideParameter(i, j) /\ AskedMethod(i) /\ Matches(i, AskedParts)) =>
                /\ routing.result.found
                /\ routing.result.handler = HandlerOf(i)
                /\ routing.result.params = EmptyMap

\* C11 witness: /users/:id was added before /users/new, both for GET, and
\* GET /users/new found the handler of /users/new.
C11_Witness ==
    /\ routing.asked
    /\ Len(routing.routes) = 2
    /\ routing.routes[1].path = <<"/", "users", "/", ":id">>
    /\ routing.routes[2].path = <<"/", "users", "/", "new">>
    /\ LiteralBesideParameter(2, 1)
    /\ routing.method = "GET" /\ AskedParts = <<"users", "new">>
    /\ routing.result.handler = "h2"

\* the positions of the parameters of route i
ParamPositions(i) == {k \in 1..Len(RouteSegs(i)) : RouteSegs(i)[k].param}

\* the request segments that route i captures, each under the name that
\* name_at gives to its position
Captured(i, parts, name_at(_)) ==
    [n \in {name_at(k) : k \in ParamPositions(i)} |->
        parts[CHOOSE k \in ParamPositions(i) :
                 name_at(k) = n /\ \A l \in ParamPositions(i) : name_at(l) = n => l <= k]]

\* the name route i gives to its parameter at position k
OwnName(i, k) == RouteSegs(i)[k].name

\* The routes that go through the same parameter child as route i does at
\* position k: a parameter there, after the same segments.
SharesChild(i, j, k) ==
    /\ Len(RouteSegs(j)) >= k
    /\ RouteSegs(j)[k].param
    /\ Shape(SubSeq(RouteSegs(j), 1, k - 1)) = Shape(SubSeq(RouteSegs(i), 1, k - 1))

\* the name the first route added through that child gave to the parameter
StoredName(i, k) ==
    LET first == CHOOSE j \in 1..Len(routing.routes) :
                    SharesChild(i, j, k) /\ \A l \in 1..(j - 1) : ~SharesChild(i, l, k)
    IN RouteSegs(first)[k].name

\* C12 as stated: a lookup finds a route only of the request's number of
\* segments, and returns each request segment at a ':name' position of the
\* matched route under that route's own name.
C12_OwnNames ==
    (routing.asked /\ routing.result.found) =>
        \E i \in 1..Len(routing.routes) :
            /\ AskedMethod(i)
            /\ Matches(i, AskedParts)
            /\ routing.result.handler = HandlerOf(i)
            /\ routing.result.params = Captured(i, AskedParts, LAMBDA k : OwnName(i, k))

\* C12 (amended): a lookup finds a route only of the request's number of
\* segments, and returns each request segment at a parameter position of
\* the matched route under the name stored in the parameter child, which
\* is the name given by the first route added through that position.
C12_StoredNames ==
    (routing.asked /\ routing.result.found) =>
        \E i \in 1..Len(routing.routes) :
            /\ AskedMethod(i)
            /\ Matches(i, AskedParts)
            /\ routing.result.handler = HandlerOf(i)
            /\ routing.result.params = Captured(i, AskedParts, LAMBDA k : StoredName(i, k))

\* C12 witness: /users/:id then /users/:uid/posts were added, and
\* GET /users/42/posts found the second route with 42 captured.
C12_Witness ==
    /\ routing.asked /\ routing.result.found
    /\ Len(routing.routes) = 2
    /\ routing.routes[1].path = <<"/", "users", "/", ":id">>
    /\ routing.routes[2].path = <<"/", "users", "/", ":uid", "/", "posts">>
    /\ AskedParts = <<"users", "42", "posts">>
    /\ routing.result.handler = "h2"
    /\ routing.result.params = ("id" :> "42")

\* every route added has literal segments only
AllLiteral == \A i \in 1..Len(routing.routes) : RouteIsLiteral(i)

\* C13: in a router whose routes have literal segments only, added in any
\* order, a lookup of a registered method and path returns the handler
\* added for that pair with an empty parameter map, and a lookup of
\* anything else finds nothing.
C13_LiteralRoutes ==
    (routing.asked /\ AllLiteral) =>
        LET hits == {i \in 1..Len(routing.routes) : AskedMethod(i) /\ Matches(i, AskedParts)}
        IN /\ routing.result.found <=> hits # {}
           /\ \A i \in hits : /\ routing.result.handler = HandlerOf(i)
                              /\ routing.result.params = EmptyMap

\* C13 witness: three different literal routes were added, one of them
\* with its method in lower case, and the first one added was found.
C13_Witness ==
    /\ routing.asked /\ AllLiteral
    /\ Len(routing.routes) = 3
    /\ \A i, j \in 1..3 : i # j => ~SameRoute(i, j)
    /\ \E i \in 1..3 : routing.routes[i].method = "post"
    /\ AskedMethod(1) /\ Matches(1, AskedParts)
    /\ routing.result.found /\ routing.result.handler = "h1"

\* the literal routes added at the path looked up
RoutesAtAskedPath ==
    {i \in 1..Len(routing.routes) :
        RouteIsLiteral(i) /\ [k \in 1..Len(RouteSegs(i)) |-> RouteSegs(i)[k].name] = AskedParts}

\* A lookup of a path returns, for each method registered at that path, the
\* handler added for that method there.
HandlerPerMethod ==
    routing.asked =>
        \A i \in RoutesAtAskedPath :
            AskedMethod(i) => routing.result.found /\ routing.result.handler = HandlerOf(i)

\* The last add_route left the lookup of every other route already
\* registered as it was before.
AddRouteKeepsOthers ==
    LET n == Len(routing.routes)
    IN \A i \in 1..(n - 1) :
          ~SameRoute(i, n) =>
             LET path == SplitPath(routing.routes[i].path)
                 method == routing.routes[i].method
             IN RouterFind(routing.router, method, path)
                   = RouterFind(routing.before, method, path)

\* C14 as stated: handlers are kept per method at a path, an add_route
\* leaves the lookups of the other routes unchanged, and the lookup of a
\* path with a method that is not registered at that path finds nothing.
C14_NoMatchForOtherMethod ==
    /\ HandlerPerMethod
    /\ AddRouteKeepsOthers
    /\ (routing.asked /\ RoutesAtAskedPath # {}
          /\ \A i \in RoutesAtAskedPath : ~AskedMethod(i)) => ~routing.result.found

\* C14 (amended): handlers are kept per method at a path, an add_route
\* leaves the lookups of the other routes unchanged, and the lookup of a
\* path with a method that is not registered at that path finds only a
\* route of that method whose parameters match the path, if there is one.
C14_HandlersPerMethod ==
    /\ HandlerPerMethod
    /\ AddRouteKeepsOthers
    /\ (routing.asked /\ RoutesAtAskedPath # {}
          /\ \A i \in RoutesAtAskedPath : ~AskedMethod(i)) =>
             /\ routing.result.found <=>
                   \E j \in 1..Len(routing.routes) : AskedMethod(j) /\ Matches(j, AskedParts)
             /\ routing.result.found =>
                   \E j \in 1..Len(routing.routes) :
                      /\ AskedMethod(j) /\ Matches(j, AskedParts) /\ ~RouteIsLiteral(j)
                      /\ routing.result.handler = HandlerOf(j)

\* C14 witness: /users was added for GET and then for POST, a third route
\* was added after them, and GET /users still found the first handler.
C14_Witness ==
    /\ routing.asked
    /\ Len(routing.routes) = 3
    /\ routing.routes[1].path = <<"/", "users">> /\ routing.routes[1].method = "GET"
    /\ routing.routes[2].path = <<"/", "users">> /\ routing.routes[2].method = "post"
    /\ ~SameRoute(3, 1) /\ ~SameRoute(3, 2)
    /\ routing.method = "GET" /\ AskedParts = <<"users">>
    /\ routing.result.found /\ routing.result.handler = "h1"

(* ------------------------ the Response on its own --------------------- *)

\* operations applied to one Response after it is built
MaxOps == 2
\* reads the stream of a streaming Response answers before it ends
MaxReads == 2

\* StatusCode::as_str (response.rs:21)
StatusAsStr(status) ==
    CASE status = 200 -> "200 OK"
      [] status = 401 -> "401 Unauthorized"
      [] status = 404 -> "404 Not Found"
      [] status = 500 -> "500 Internal Server Error"
      [] status = 101 -> "101 Switching Protocols"
      [] OTHER -> "Custom"

\* Response::stream (response.rs:115): the length of the body is not known
ResponseStream(status) ==
    [status |-> status,
     headers |-> MapInsert(MapInsert(EmptyMap, "Transfer-Encoding", "chunked"),
                           "Connection", "close"),
     streaming |-> TRUE,
     body |-> <<>>]

\* Response::with_header (response.rs:131) and Response::header (response.rs:228)
ResponseWithHeader(res, key, value) == [res EXCEPT !.headers = MapInsert(@, key, value)]

\* Response::json (response.rs:204); data is what serde_json::to_vec gives
ResponseJson(res, data) ==
    IF data.ok
    THEN [res EXCEPT !.body = data.bytes, !.streaming = FALSE,
                     !.headers = MapInsert(@, "Content-Type", "application/json")]
    ELSE [res EXCEPT !.body = <<Text("{\"error\":\"Failed to serialize JSON\"}")>>,
                     !.streaming = FALSE,
                     !.status = 500,
                     !.headers = MapInsert(@, "Content-Type", "application/json")]

\* the orders in which a HashMap of these keys may be iterated
Orders(keys) ==
    {o \in [1..Cardinality(keys) -> keys] : \A i, j \in 1..Cardinality(keys) : i # j => o[i] # o[j]}

\* a serialization that stops after the empty line
ToBytesHeadOnly(res, order) ==
    <<[k |-> "status", name |-> "HTTP/1.1", value |-> StatusAsStr(res.status)]>>
    \o [i \in 1..Len(order) |->
           [k |-> "header", name |-> order[i], value |-> res.headers[order[i]]]]
    \o <<[k |-> "blank", name |-> "", value |-> ""]>>

\* Response::to_bytes (response.rs:136): the status line, a line per header
\* in the map's iteration order, the empty line, and the static body
ToBytes(res, order) ==
    <<[k |-> "status", name |-> "HTTP/1.1", value |-> StatusAsStr(res.status)]>>
    \o [i \in 1..Len(order) |->
           [k |-> "header", name |-> order[i], value |-> res.headers[order[i]]]]
    \o <<[k |-> "blank", name |-> "", value |-> ""]>>
    \o (IF res.streaming THEN <<>>
        ELSE [i \in 1..Len(res.body) |->
                 [k |-> "body", name |-> "", value |-> res.body[i]]])

\* the statuses, bodies, texts, serializations and headers the caller passes
RespStatuses == {200, 404}
RespBodies == {<<>>, <<Text("a")>>, <<Text("a"), Text("b"), Text("c")>>}
JsonData == {[ok |-> TRUE, bytes |-> <<Text("{"), Text("}")>>], [ok |-> FALSE, bytes |-> <<>>]}
RespHeaders == {<<"X-Custom", "test">>, <<"Content-Length", "9">>}

\* the Response after the operation op built it as res
Built(op, res) == [resp EXCEPT !.made = TRUE, !.res = res, !.ops = <<op>>, !.pc = "built"]

\* the Response after the operation op changed it to res
Applied(op, res) == [resp EXCEPT !.res = res, !.ops = Append(@, op)]

\* a further operation may be applied to the Response
CanApply == resp.pc = "built" /\ Len(resp.ops) <= MaxOps

\* Response::new (response.rs:101)
RespNew(status, body) ==
    /\ resp.pc = "init"
    /\ resp' = Built("new", ResponseNew(status, body))
    /\ UNCHANGED <<server, pool, dropped, conn, net, env, test, routing, scoped, ctx, served, registry, room>>

\* Response::default (response.rs:234)
RespDefault ==
    /\ resp.pc = "init"
    /\ resp' = Built("default", ResponseDefault)
    /\ UNCHANGED <<server, pool, dropped, conn, net, env, test, routing, scoped, ctx, served, registry, room>>

\* Response::stream (response.rs:115)
RespStream(status) ==
    /\ resp.pc = "init"
    /\ resp' = Built("stream", ResponseStream(status))
    /\ UNCHANGED <<server, pool, dropped, conn, net, env, test, routing, scoped, ctx, served, registry, room>>

\* Response::set_body (response.rs:190)
RespSetBody(body) ==
    /\ CanApply
    /\ resp' = Applied("set_body", ResponseSetBody(resp.res, body))
    /\ UNCHANGED <<server, pool, dropped, conn, net, env, test, routing, scoped, ctx, served, registry, room>>

\* Response::text (response.rs:196)
RespText(text) ==
    /\ CanApply
    /\ resp' = Applied("text", ResponseText(resp.res, text))
    /\ UNCHANGED <<server, pool, dropped, conn, net, env, test, routing, scoped, ctx, served, registry, room>>

\* Response::json (response.rs:204)
RespJson(data) ==
    /\ CanApply
    /\ resp' = Applied("json", ResponseJson(resp.res, data))
    /\ UNCHANGED <<server, pool, dropped, conn, net, env, test, routing, scoped, ctx, served, registry, room>>

\* Response::with_header (response.rs:131)
RespWithHeader(h) ==
    /\ CanApply
    /\ resp' = Applied("with_header", ResponseWithHeader(resp.res, h[1], h[2]))
    /\ UNCHANGED <<server, pool, dropped, conn, net, env, test, routing, scoped, ctx, served, registry, room>>

\* Response::header (response.rs:228)
RespHeader(h) ==
    /\ CanApply
    /\ resp' = Applied("header", ResponseWithHeader(resp.res, h[1], h[2]))
    /\ UNCHANGED <<server, pool, dropped, conn, net, env, test, routing, scoped, ctx, served, registry, room>>

\* the header names that occur in a Response here
HeaderNames == {"Content-Length", "Connection", "Content-Type", "Transfer-Encoding", "X-Custom"}

\* Response::to_bytes (response.rs:136) is called; the map is iterated in
\* some order, here the order its keys have in a sequence of all names
RespToBytes(order) ==
    /\ resp.pc = "built"
    /\ resp' = [resp EXCEPT
           !.pc = "bytes",
           !.wire = ToBytes(resp.res,
                            SelectSeq(order, LAMBDA key : key \in DOMAIN resp.res.headers))]
    /\ UNCHANGED <<server, pool, dropped, conn, net, env, test, routing, scoped, ctx, served, registry, room>>

\* format!("{:X}", n) (response.rs:176) for the sizes read here
ToHex(n) ==
    CASE n = 1 -> "1"
      [] n = 10 -> "A"
      [] n = 26 -> "1A"
      [] OTHER -> "?"

\* The sizes a read of the stream returns; the buffer of response.rs:165
\* holds 8192 bytes, a read fills any part of it.
ReadSizes == {1, 10, 26}

RECURSIVE SumSeq(_)
\* the number of bytes the reads returned
SumSeq(q) == IF q = <<>> THEN 0 ELSE Head(q) + SumSeq(Tail(q))

\* what write_all puts on the writer: a text, or len bytes of the stream
\* from offset from
Written(k, text, from, len) == [k |-> k, text |-> text, from |-> from, len |-> len]
Crlf == Written("crlf", "", 0, 0)

\* write_stream_to is in its loop on a streaming body
InStream == resp.pc \in {"built", "stream"} /\ resp.res.streaming

\* the chunk with the decimal size
StreamChunkDecimal(n) ==
    /\ InStream
    /\ Len(resp.reads) < MaxReads
    /\ resp' = [resp EXCEPT
           !.pc = "stream",
           !.reads = Append(@, n),
           !.wire = @ \o <<Written("size", LenToString(n), 0, 0), Crlf,
                           Written("data", "", SumSeq(resp.reads), n), Crlf>>]
    /\ UNCHANGED <<server, pool, dropped, conn, net, env, test, routing, scoped, ctx, served, registry, room>>

\* write_stream_to (response.rs:168-184): a read returns n > 0 bytes, which
\* are written as a chunk
StreamChunk(n) ==
    /\ InStream
    /\ Len(resp.reads) < MaxReads
    /\ resp' = [resp EXCEPT
           !.pc = "stream",
           !.reads = Append(@, n),
           !.wire = @ \o <<Written("size", ToHex(n), 0, 0), Crlf,
                           Written("data", "", SumSeq(resp.reads), n), Crlf>>]
    /\ UNCHANGED <<server, pool, dropped, conn, net, env, test, routing, scoped, ctx, served, registry, room>>

\* write_stream_to (response.rs:169-173): a read returns 0, the end of the
\* stream; the terminator is written and the loop ends
StreamEnd ==
    /\ InStream
    /\ resp' = [resp EXCEPT
           !.pc = "done",
           !.wire = @ \o <<Written("size", "0", 0, 0), Crlf, Crlf>>]
    /\ UNCHANGED <<server, pool, dropped, conn, net, env, test, routing, scoped, ctx, served, registry, room>>

\* write_stream_to (response.rs:167-182): the read fails (written = 0), or
\* after a read of n bytes one of the three writes of the chunk fails, the
\* writes before it done; `?` returns the error
StreamFail(n, written) ==
    /\ InStream
    /\ resp' = [resp EXCEPT
           !.pc = "failed",
           !.wire = @ \o SubSeq(<<Written("size", ToHex(n), 0, 0), Crlf,
                                  Written("data", "", SumSeq(resp.reads), n)>>, 1, written)]
    /\ UNCHANGED <<server, pool, dropped, conn, net, env, test, routing, scoped, ctx, served, registry, room>>

\* write_stream_to on a static body (response.rs:163): nothing is written
StreamNothing ==
    /\ resp.pc = "built" /\ ~resp.res.streaming
    /\ resp' = [resp EXCEPT !.pc = "done"]
    /\ UNCHANGED <<server, pool, dropped, conn, net, env, test, routing, scoped, ctx, served, registry, room>>

ResponseInit == Init /\ env.scenario.conns = 1

ResponseNext ==
    \/ \E status \in RespStatuses : \E body \in RespBodies : RespNew(status, body)
    \/ RespDefault
    \/ \E status \in RespStatuses : RespStream(status)
    \/ \E body \in RespBodies : RespSetBody(body)
    \/ \E text \in RespBodies : RespText(text)
    \/ \E data \in JsonData : RespJson(data)
    \/ \E h \in RespHeaders : RespWithHeader(h)
    \/ \E h \in RespHeaders : RespHeader(h)
    \/ \E order \in Orders(HeaderNames) : RespToBytes(order)
    \/ \E n \in ReadSizes : StreamChunk(n)
    \/ StreamEnd
    \/ \E n \in ReadSizes : \E written \in 0..2 : StreamFail(n, written)
    \/ StreamNothing

ResponseSpec == ResponseInit /\ [][ResponseNext]_vars

(* ------------------------- claims on the Response --------------------- *)

\* the operations C15 is about
StaticOps == {"new", "default", "set_body", "text", "json", "with_header", "header"}

\* the Response was made by these operations only
MadeByStaticOps == resp.made /\ \A i \in 1..Len(resp.ops) : resp.ops[i] \in StaticOps

\* C15: after any sequence of new, default, set_body, text, json,
\* with_header and header, a Response with a static body has a
\* Content-Length header whose value is the length of its body.
C15_ContentLengthOfStaticBody ==
    (MadeByStaticOps /\ ~resp.res.streaming)
        => /\ "Content-Length" \in DOMAIN resp.res.headers
           /\ resp.res.headers["Content-Length"] = LenToString(Len(resp.res.body))

\* to_bytes was called on a Response that Response::new built
NewToBytes == resp.ops = <<"new">> /\ resp.pc = "bytes"

\* the place of the empty line in what to_bytes produced, 0 if there is none
BlankAt(w) ==
    IF \E i \in 1..Len(w) : w[i].k = "blank"
    THEN CHOOSE i \in 1..Len(w) : w[i].k = "blank" /\ \A j \in 1..(i - 1) : w[j].k # "blank"
    ELSE 0

\* C16: Response::new(status, body).to_bytes() with a body of N bytes is a
\* status line, header lines with 'Content-Length: N' among them, the
\* empty line, and then exactly the N bytes of the body.
C16_NewToBytes ==
    NewToBytes =>
        LET w == resp.wire
            b == BlankAt(w)
            N == Len(resp.res.body)
        IN /\ b >= 2
           /\ w[1].k = "status" /\ w[1].name = "HTTP/1.1"
           /\ w[1].value = StatusAsStr(resp.res.status)
           /\ \A i \in 2..(b - 1) : w[i].k = "header"
           /\ \E i \in 2..(b - 1) :
                  w[i].name = "Content-Length" /\ w[i].value = LenToString(N)
           /\ Len(w) = b + N
           /\ \A i \in 1..N : w[b + i].k = "body" /\ w[b + i].value = resp.res.body[i]

\* a body of three bytes was serialized after its head
C16_Witness ==
    /\ NewToBytes
    /\ Len(resp.res.body) = 3
    /\ resp.res.status = 404
    /\ Len(resp.wire) = 7
    /\ resp.wire[7].k = "body"

\* the number a chunk-size line stands for, read as hexadecimal digits
HexValue(text) ==
    CASE text = "0" -> 0
      [] text = "1" -> 1
      [] text = "A" -> 10
      [] text = "10" -> 16
      [] text = "1A" -> 26
      [] text = "26" -> 38
      [] OTHER -> -1

\* the i-th chunk on the writer frames the i-th read of the stream
ChunkFramed(i) ==
    LET w == resp.wire
        n == resp.reads[i]
    IN /\ Len(w) >= 4 * i
       /\ w[4 * i - 3].k = "size" /\ HexValue(w[4 * i - 3].text) = n
       /\ w[4 * i - 2] = Crlf
       /\ w[4 * i - 1] = Written("data", "", SumSeq(SubSeq(resp.reads, 1, i - 1)), n)
       /\ w[4 * i] = Crlf

\* C17: write_stream_to writes every read of n > 0 bytes as the size n in
\* hexadecimal, CRLF, the n bytes, CRLF, in read order; at the end of the
\* stream it writes '0' CRLF CRLF once and nothing after it; the payloads
\* put together are the bytes of the stream.  Response::stream announces
\* the framing with Transfer-Encoding: chunked.
C17_ChunkedFraming ==
    /\ (resp.made /\ resp.ops = <<"stream">>)
           => /\ resp.res.streaming
              /\ "Transfer-Encoding" \in DOMAIN resp.res.headers
              /\ resp.res.headers["Transfer-Encoding"] = "chunked"
    /\ (resp.res.streaming /\ resp.pc \in {"stream", "done"})
           => LET w == resp.wire
                  r == Len(resp.reads)
              IN /\ \A i \in 1..r : resp.reads[i] > 0 /\ ChunkFramed(i)
                 /\ resp.pc = "stream" => Len(w) = 4 * r
                 /\ resp.pc = "done"
                        => /\ Len(w) = 4 * r + 3
                           /\ w[4 * r + 1].k = "size" /\ w[4 * r + 1].text = "0"
                           /\ w[4 * r + 2] = Crlf
                           /\ w[4 * r + 3] = Crlf

\* a stream of 26 and then 10 bytes was written to its end
C17_Witness ==
    /\ resp.res.streaming
    /\ resp.pc = "done"
    /\ resp.reads = <<26, 10>>
    /\ Len(resp.wire) = 11
    /\ resp.wire[1].text = "1A"
    /\ resp.wire[7] = Written("data", "", 26, 10)

(* -------------------------- claims on the upgrade --------------------- *)

\* the value request template r carries under the header name, "" if none
TemplateHeader(r, name) ==
    LET hs == ClientRequests[r].headers
    IN IF \E i \in 1..Len(hs) : hs[i][1] = name
       THEN hs[CHOOSE i \in 1..Len(hs) : hs[i][1] = name][2]
       ELSE ""

\* the header name of a written response has the value v
WrittenHeader(o, name, v) == name \in DOMAIN o.headers /\ o.headers[name] = v

\* C18: the response written on the socket for a WebSocket upgrade has
\* status 101 and the handshake headers websocket_upgrade built: Upgrade:
\* websocket, Connection: Upgrade, and the Sec-WebSocket-Accept derived
\* from the request's Sec-WebSocket-Key.
C18_UpgradeResponseOnTheSocket ==
    \A c \in Conns : \A i \in 1..Len(net[c].out) :
        LET o == net[c].out[i]
        IN o.ws => /\ o.status = 101
                   /\ WrittenHeader(o, "Upgrade", "websocket")
                   /\ WrittenHeader(o, "Connection", "Upgrade")
                   /\ WrittenHeader(o, "Sec-WebSocket-Accept",
                          GenerateAcceptKey(TemplateHeader(o.r, "Sec-WebSocket-Key")))

\* request template r asks for a WebSocket upgrade by its Upgrade and
\* Connection headers
AsksUpgrade(r) ==
    /\ EqIgnoreAsciiCase(TemplateHeader(r, "Upgrade"), "websocket")
    /\ ContainsUpgrade(TemplateHeader(r, "Connection"))

\* request template r carries Sec-WebSocket-Key
HasKey(r) ==
    \E i \in 1..Len(ClientRequests[r].headers) :
        ClientRequests[r].headers[i][1] = "Sec-WebSocket-Key"

\* the sequence q has the element x
Has(q, x) == \E i \in 1..Len(q) : q[i] = x

\* C19: a request is upgraded only if no middleware stopped the chain, its
\* headers ask for a WebSocket upgrade, its path has a WebSocket handler
\* and it carries Sec-WebSocket-Key.  After the 101 response the socket is
\* the WebSocket handler's: there was no router lookup, no further
\* response is written on the connection, and when the handler returns
\* the task ends with Ok without reading again.  A request that fails one
\* of the conditions and is not stopped goes through the router.
C19_UpgradeOnlyIf ==
    \A c \in Conns : \A i \in 1..Len(net[c].out) :
        LET o == net[c].out[i]
        IN /\ o.ws <=> /\ ~o.stopped
                       /\ AsksUpgrade(o.r)
                       /\ ClientRequests[o.r].path \in server.ws_routes
                       /\ HasKey(o.r)
           /\ o.ws => /\ o.status = 101
                      /\ ~Has(o.calls, "find")
                      /\ ~Has(o.calls, "hello_handler") /\ ~Has(o.calls, "echo_handler")
                      /\ i = Len(net[c].out)
                      /\ o.complete => /\ o.next = "websocket"
                                       /\ conn[c].pc \in {"ws_open", "done"}
                                       /\ conn[c].pc = "done" => conn[c].result = "ok"
                      /\ ~o.complete => conn[c].pc \in {"w_body", "done"}
           /\ (~o.ws /\ ~o.stopped)
                  => /\ Has(o.calls, "find")
                     /\ ~Has(o.calls, "websocket_upgrade")
                     /\ o.status # 101

\* a connection answered GET /hello, was then upgraded on /ws, and its
\* task ended when the WebSocket handler returned
C19_Witness ==
    \E c \in Conns :
        /\ conn[c].pc = "done" /\ conn[c].result = "ok"
        /\ Len(net[c].out) = 2
        /\ net[c].out[1].r = 1 /\ ~net[c].out[1].ws /\ net[c].out[1].status = 200
        /\ net[c].out[2].r = 10 /\ net[c].out[2].ws /\ net[c].out[2].complete
        /\ net[c].out[2].next = "websocket"

\* an upgrade request for /hello, which has no WebSocket handler, went
\* through the router and was answered by hello_handler
C19_FallThroughPath ==
    \E c \in Conns : \E i \in 1..Len(net[c].out) :
        net[c].out[i].r = 11 /\ net[c].out[i].complete /\ net[c].out[i].status = 200

\* an upgrade request on /ws without Sec-WebSocket-Key was answered 404
C19_FallThroughKey ==
    \E c \in Conns : \E i \in 1..Len(net[c].out) :
        net[c].out[i].r = 12 /\ net[c].out[i].complete /\ net[c].out[i].status = 404

\* an upgrade request on /ws was stopped by a middleware with 401
C19_Stopped ==
    \E c \in Conns : \E i \in 1..Len(net[c].out) :
        net[c].out[i].r = 10 /\ net[c].out[i].stopped /\ net[c].out[i].status = 401

(* ------------------------- claims on the read loop -------------------- *)

\* this step is a read on connection c that returns Ok(0): the task is at
\* the read, the peer has closed, nothing is left to read, and no I/O
\* error is raised
ZeroByteRead(c) ==
    /\ conn[c].pc = "read"
    /\ Len(conn[c].read_buf) < BUFFER_SIZE * 2
    /\ net[c].incoming = <<>> /\ net[c].closed
    /\ conn'[c] # conn[c]
    /\ env'.io_errors = env.io_errors

\* C20: a zero-byte read while handle_connection reads headers, before
\* any byte of a request or after part of a header block, ends the task
\* with Ok; no response is written, no middleware or handler runs, and the
\* read buffer goes back to the pool (cleared, and kept if the pool has
\* room).
C20_ZeroByteReadEndsCleanly ==
    [][\A c \in Conns :
          ZeroByteRead(c)
              => /\ conn'[c].pc = "done"
                 /\ conn'[c].result = "ok" /\ conn'[c].error = ""
                 /\ net'[c].out = net[c].out
                 /\ conn[c].calls = <<>> /\ conn'[c].calls = <<>>
                 /\ IF Len(pool) < MAX_POOLED_BUFFERS
                    THEN pool' = Append(pool, <<>>) /\ dropped' = dropped
                    ELSE pool' = pool /\ dropped' = dropped + 1]_vars

\* the peer sent part of a header block and closed; the task read it,
\* then read zero bytes and ended with Ok, nothing written, its buffer in
\* the pool
C20_Witness ==
    \E c \in Conns :
        /\ conn[c].pc = "done" /\ conn[c].result = "ok"
        /\ net[c].closed /\ net[c].sent = 1 /\ net[c].incoming = <<>>
        /\ net[c].out = <<>>
        /\ env.requests = 1
        /\ pool = << <<>> >>

\* the peer closed without sending anything and the task ended with Ok
C20_ClosedBeforeAnyByte ==
    \E c \in Conns :
        /\ conn[c].pc = "done" /\ conn[c].result = "ok"
        /\ net[c].closed /\ net[c].sent = 0
        /\ net[c].out = <<>>

(* --------------------- claims on buffers and bodies ------------------- *)

\* the buffers the task of connection c holds from get_buffer: its read
\* buffer, and the header buffer of write_response until it is written
HeldBuffers(c) == IF conn[c].pc = "w_hdr" THEN 2 ELSE 1

\* this step ends the task of connection c because the connection is
\* closed (the peer closed, the exchange was not keep-alive, the WebSocket
\* handler returned) or because a write of the response failed
EndsByCloseOrWriteFailure(c) ==
    /\ conn[c].pc \notin {"idle", "start", "done"}
    /\ conn'[c].pc = "done"
    /\ \/ conn'[c].result = "ok"
       \/ conn[c].pc \in {"w_hdr", "w_body"} /\ conn'[c].error = "io"

\* C21: on every path on which handle_connection ends because the
\* connection is closed or a write fails, the buffers it took with
\* get_buffer are passed to return_buffer before the task ends: each of
\* them is then in the pool or counted as not kept.
C21_BuffersReturnedAtEnd ==
    [][\A c \in Conns :
          EndsByCloseOrWriteFailure(c)
              => Len(pool') + dropped' = Len(pool) + dropped + HeldBuffers(c)]_vars

\* the Content-Length request template r declares, 0 if none
DeclaredLength(r) == ParseUsize(TemplateHeader(r, "Content-Length"))

\* the first len bytes that follow the header terminator of the n-th
\* request of a connection, sent from template r
BytesAfterHeaders(r, n, len) == [j \in 1..len |-> [k |-> BodyByte(j), r |-> r, n |-> n]]

\* the task of connection c has built the Request and is at a middleware,
\* at the handler or at the write of the response
RequestBuilt(c) == conn[c].pc \in {"async_mw", "dispatch", "write", "w_hdr", "w_body"}

\* C22: for a request that declares Content-Length L > 0, the body handed
\* to middleware and handler has exactly L bytes, the first L that follow
\* the header terminator, however they were split between the read that
\* completed the headers and later reads; the echo handler answers with
\* these bytes.
C22_BodyIsDeclaredBytes ==
    \A c \in Conns :
        /\ (RequestBuilt(c) /\ DeclaredLength(conn[c].hdr) > 0)
               => /\ Len(conn[c].request.body) = DeclaredLength(conn[c].hdr)
                  /\ conn[c].request.body =
                         BytesAfterHeaders(conn[c].hdr, conn[c].cur,
                                           DeclaredLength(conn[c].hdr))
        /\ \A i \in Responses(c) :
               LET o == net[c].out[i]
               IN (DeclaredLength(o.r) > 0 /\ o.status = 200 /\ ~o.stopped
                   /\ Has(o.calls, "echo_handler"))
                      => o.body = BytesAfterHeaders(o.r, o.n, DeclaredLength(o.r))

\* POST /echo with Content-Length: 2 was answered with its two body
\* bytes, the first read with the headers and the second by read_exact
C22_Witness ==
    \E c \in Conns :
        /\ conn[c].pc = "w_body"
        /\ conn[c].hdr = 9
        /\ conn[c].total_read = 3
        /\ Len(conn[c].request.body) = 2
        /\ conn[c].response.body = BytesAfterHeaders(9, conn[c].cur, 2)

(* ---------------------- claims on the Request headers ----------------- *)

\* header names a middleware or handler may ask for, in two cases each
LookupNames == {"Connection", "connection", "Upgrade", "upgrade",
                "Content-Length", "content-length"}

\* the values request template r carries under the header name, case of
\* the name aside, in the order they were sent
TemplateValues(r, name) ==
    LET hs == SelectSeq(ClientRequests[r].headers,
                        LAMBDA h : EqIgnoreAsciiCase(h[1], name))
    IN [i \in 1..Len(hs) |-> hs[i][2]]

\* Request::header_all (request.rs:145)
RequestHeaderAll(req, name) ==
    IF name \in DOMAIN req.headers THEN req.headers[name] ELSE <<>>

\* C23: the headers of the Request built by handle_connection are looked
\* up without regard to the case of the name: two names that differ in
\* case only give the same result, and that result is every value the
\* client sent under the name, in arrival order.
C23_HeaderNamesIgnoreCase ==
    \A c \in Conns :
        RequestBuilt(c)
            => \A a \in LookupNames :
                  /\ RequestHeaderAll(conn[c].request, a) = TemplateValues(conn[c].hdr, a)
                  /\ \A b \in LookupNames :
                        EqIgnoreAsciiCase(a, b)
                            => RequestHeader(conn[c].request, a)
                                   = RequestHeader(conn[c].request, b)

(* --------------- an application built by #[scope] and routes!() ------- *)

\* names in a middleware list of #[scope], at most
MaxListed == 2

\* The functions declared with #[middleware] or #[middleware(post)]
\* (testing_example.rs:30, main.rs:54, 110), each an entry of
\* SCOPE_MIDDLEWARES (macros lib.rs:124-131).
DeclaredMiddlewares == {"auth_middleware", "async_auth", "async_response_logger"}

\* the phase of lib.rs:70-82: Post with the attribute (post), else Pre
PhaseOf(mw) == IF mw \in {"async_response_logger", "timing_end"} THEN "Post" ELSE "Pre"

\* MiddlewareHandler::Async for an async fn (lib.rs:79, 84-108)
IsAsyncMiddleware(mw) == mw \in {"async_auth", "async_response_logger"}

\* the lists one can write in #[scope(.., middleware = [..], post = [..])]
Listings ==
    {q \in UNION {[1..n -> DeclaredMiddlewares] : n \in 0..MaxListed} :
        \A i, j \in 1..Len(q) : i # j => q[i] # q[j]}

\* async fn index (testing_example.rs:5)
index(req, res) == ResponseSetBody(res, <<Text("Hello, World!")>>)

\* async fn protected (testing_example.rs:47)
protected(req, res) == ResponseJson(res, [ok |-> TRUE, bytes |-> <<Text("{"), Text("}")>>])

RECURSIVE ScopePre(_, _, _, _, _, _)
\* The pre-middleware blocks of the generated wrapper (lib.rs:441-465),
\* one per listed name: the entry of SCOPE_MIDDLEWARES with that name and
\* phase Pre is called, if there is one.
ScopePre(pre, i, slice, req, res, calls) ==
    IF i > Len(pre)
    THEN [stopped |-> FALSE, request |-> req, response |-> res, calls |-> calls]
    ELSE IF Has(slice, pre[i]) /\ PhaseOf(pre[i]) = "Pre"
    THEN LET flow == CallMiddleware(pre[i], req, res)
         IN IF flow.stop
            THEN [stopped |-> TRUE, request |-> req, response |-> flow.res,
                  calls |-> calls \o <<pre[i], "Stop">>]
            ELSE ScopePre(pre, i + 1, slice, flow.req, flow.res, Append(calls, pre[i]))
    ELSE ScopePre(pre, i + 1, slice, req, res, calls)

RECURSIVE ScopePost(_, _, _, _, _, _)
\* The post-middleware blocks of the generated wrapper (lib.rs:470-488):
\* the entry with the listed name is called, whatever its phase; after
\* Stop the next block still runs.
ScopePost(post, i, slice, req, res, calls) ==
    IF i > Len(post)
    THEN [response |-> res, calls |-> calls]
    ELSE IF Has(slice, post[i])
    THEN LET flow == CallMiddleware(post[i], req, res)
         IN IF flow.stop
            THEN ScopePost(post, i + 1, slice, req, flow.res,
                           calls \o <<post[i], "Stop">>)
            ELSE ScopePost(post, i + 1, slice, req, flow.res, Append(calls, post[i]))
    ELSE ScopePost(post, i + 1, slice, req, res, calls)

\* a wrapper that goes on to the handler after a pre-middleware stopped
ScopeWrapperNoReturn(pre, post, slice, req, res) ==
    LET p == ScopePre(pre, 1, slice, req, res, <<>>)
        h == protected(p.request, p.response)
    IN ScopePost(post, 1, slice, p.request, h, Append(p.calls, "protected"))

\* The handler #[scope] generates for a route of the module (lib.rs:427-491):
\* the pre-middlewares, return if one stopped, the route's function, the
\* post-middlewares.
ScopeWrapper(pre, post, slice, req, res) ==
    LET p == ScopePre(pre, 1, slice, req, res, <<>>)
    IN IF p.stopped
       THEN [response |-> p.response, calls |-> p.calls]
       ELSE ScopePost(post, 1, slice, p.request, protected(p.request, p.response),
                      Append(p.calls, "protected"))

\* SCOPE_MIDDLEWARES as the linker lays it out: the declared middlewares
\* of the program, in some order
Slices == UNION {Orders(S) : S \in SUBSET DeclaredMiddlewares}

\* the routes of testing_example.rs: index outside the scope, protected
\* inside #[scope("/api", ..)]
ScopedRouter ==
    AddRoute(AddRoute(RadixNodeNew, "GET", Lit(<<>>), "index"),
             "GET", Lit(<<"api", "protected">>), "protected")

\* what the test client asks for
ScopedPaths == {<<>>, <<"api", "protected">>, <<"missing">>}
Authorizations == {"", "Bearer valid_token"}

\* the program is compiled: #[scope("/api", middleware = pre, post = post)]
\* is expanded and the #[middleware] entries are linked into slice
ScopeDeclare(pre, post, slice) ==
    /\ scoped.pc = "declare"
    /\ scoped' = [scoped EXCEPT !.pc = "declared", !.pre = pre, !.post = post,
                                !.slice = slice]
    /\ UNCHANGED <<server, pool, dropped, conn, net, env, test, routing, resp, ctx, served, registry, room>>

\* routes!() (lib.rs:527-572): every entry of SCOPE_MIDDLEWARES with phase
\* Pre becomes a middleware of the server, then the routes are added
RoutesMacro ==
    /\ scoped.pc = "declared"
    /\ scoped' = [scoped EXCEPT
           !.pc = "built",
           !.middlewares = SelectSeq(scoped.slice,
               LAMBDA mw : PhaseOf(mw) = "Pre" /\ ~IsAsyncMiddleware(mw)),
           !.async_middlewares = SelectSeq(scoped.slice,
               LAMBDA mw : PhaseOf(mw) = "Pre" /\ IsAsyncMiddleware(mw))]
    /\ UNCHANGED <<server, pool, dropped, conn, net, env, test, routing, resp, ctx, served, registry, room>>

\* server.test() and client.get(path).header("Authorization", ..).send():
\* TestClient::execute (test.rs:46-78) on the server routes!() built
ScopedSend(path, authorization) ==
    /\ scoped.pc \in {"built", "served"}
    /\ LET headers == IF authorization = "" THEN EmptyHeaders
                      ELSE ("Authorization" :> <<authorization>>)
           request == RequestNew("GET", path, "Http11", headers, <<>>)
           mw == RunSyncMiddlewares(scoped.middlewares, 1, request, ResponseDefault, <<>>)
           found == RouterFind(ScopedRouter, mw.request.method, mw.request.path)
           req == [mw.request EXCEPT !.params = found.params]
           w == ScopeWrapper(scoped.pre, scoped.post, scoped.slice, req, mw.response)
       IN scoped' = [scoped EXCEPT
              !.pc = "served", !.path = path, !.authorization = authorization,
              !.response = IF mw.stopped THEN mw.response
                           ELSE IF ~found.found
                           THEN ResponseNew(404, <<Text("Not Found")>>)
                           ELSE IF found.handler = "index" THEN index(req, mw.response)
                           ELSE w.response,
              !.calls = IF mw.stopped THEN mw.calls
                        ELSE IF ~found.found THEN Append(mw.calls, "find")
                        ELSE mw.calls \o <<"find", found.handler>>,
              !.inner = IF ~mw.stopped /\ found.found /\ found.handler = "protected"
                        THEN w.calls ELSE <<>>]
    /\ UNCHANGED <<server, pool, dropped, conn, net, env, test, routing, resp, ctx, served, registry, room>>

ScopedInit == Init /\ env.scenario.conns = 1

ScopedNext ==
    \/ \E pre \in Listings : \E post \in Listings : \E slice \in Slices :
          ScopeDeclare(pre, post, slice)
    \/ RoutesMacro
    \/ \E path \in ScopedPaths : \E authorization \in Authorizations :
          ScopedSend(path, authorization)

ScopedSpec == ScopedInit /\ [][ScopedNext]_vars

\* C24: a middleware listed in #[scope(prefix, middleware = [..])] is
\* applied to the routes of that scope and to no route outside it: the
\* route outside the scope answers with its handler's response, 200, even
\* when the scope's middleware would stop the request; GET /api/protected
\* without Authorization answers 401 when auth_middleware is listed.
C24_ScopeMiddlewareOnlyInScope ==
    (scoped.pc = "served" /\ Has(scoped.slice, "auth_middleware")
     /\ Has(scoped.pre, "auth_middleware"))
        => /\ scoped.path = <<>>
                  => /\ scoped.response.status = 200
                     /\ scoped.response.body = <<Text("Hello, World!")>>
                     /\ ~Has(scoped.calls, "auth_middleware")
           /\ (scoped.path = <<"api", "protected">> /\ scoped.authorization = "")
                  => scoped.response.status = 401

(* ----------------------------- serve_static --------------------------- *)

\* The request paths, after trim_start_matches('/'), as their pieces
\* between '/'.
ServePaths == {
    <<"..", "..", "..", "etc", "passwd">>,
    <<"docs", "..", "secret.txt">>,
    <<"secret.txt">>,
    <<"missing.txt">>,
    <<"..secret">>,
    <<"docs">>,
    <<"docs", ".", "index.html">>,
    <<"docs", "", "index.html">>,
    <<"link", "passwd">>,
    <<"C:", "win.ini">>,
    <<>> }

\* Path::components (serve.rs:52) on a relative path: empty pieces and '.'
\* after the first piece are left out
Components(pieces) ==
    SelectSeq([i \in 1..Len(pieces) |-> IF i > 1 /\ pieces[i] = "." THEN "" ELSE pieces[i]],
              LAMBDA piece : piece # "")

\* a component is Component::ParentDir
IsParentDir(component) == component = ".."

\* the path starts with a drive prefix, which only Windows knows
HasPrefix(windows, components) ==
    windows /\ components # <<>> /\ components[1] = "C:"

\* Path::join (serve.rs:56): a path with a prefix replaces the base
Join(windows, base, components) ==
    IF HasPrefix(windows, components) THEN components ELSE base \o components

\* the file the system reaches for a path: a symbolic link public/link
\* to /etc is followed
RealPath(fs, path) ==
    IF fs.link_exists /\ Len(path) >= 2 /\ SubSeq(path, 1, 2) = <<"public", "link">>
    THEN <<"/", "etc">> \o SubSeq(path, 3, Len(path))
    ELSE path

\* the directories and files of the system
Directories(fs) ==
    {<<"/", "etc">>, <<"C:">>}
    \cup (IF fs.base_exists THEN {<<"public">>, <<"public", "docs">>} ELSE {})
Files(fs) ==
    {<<"/", "etc", "passwd">>}
    \cup (IF fs.windows THEN {<<"C:", "win.ini">>} ELSE {})
    \cup (IF fs.base_exists THEN {<<"public", "secret.txt">>} ELSE {})
    \cup (IF fs.base_exists /\ fs.index_exists
          THEN {<<"public", "docs", "index.html">>} ELSE {})

\* Path::exists, Path::is_dir, Path::is_file
PathExists(fs, path) == RealPath(fs, path) \in Directories(fs) \cup Files(fs)
PathIsDir(fs, path) == RealPath(fs, path) \in Directories(fs)
PathIsFile(fs, path) == RealPath(fs, path) \in Files(fs)

\* serve_file (serve.rs:6-20): File::open, then 200 with the stream or 404
ServeFile(fs, path) ==
    IF PathIsFile(fs, path)
    THEN [status |-> 200, opened |-> RealPath(fs, path), resolved |-> RealPath(fs, path)]
    ELSE [status |-> 404, opened |-> <<>>, resolved |-> RealPath(fs, path)]

\* serve_static (serve.rs:44-73)
ServeStatic(fs, base, pieces) ==
    LET safe_path == Components(pieces)
        file_path == Join(fs.windows, base, safe_path)
    IN IF \E i \in 1..Len(safe_path) : IsParentDir(safe_path[i])
       THEN [status |-> 403, opened |-> <<>>, resolved |-> <<>>]
       ELSE IF ~PathExists(fs, file_path)
       THEN [status |-> 404, opened |-> <<>>, resolved |-> RealPath(fs, file_path)]
       ELSE IF PathIsDir(fs, file_path)
       THEN IF PathIsFile(fs, Append(file_path, "index.html"))
            THEN ServeFile(fs, Append(file_path, "index.html"))
            ELSE [status |-> 403, opened |-> <<>>, resolved |-> RealPath(fs, file_path)]
       ELSE ServeFile(fs, file_path)

\* the system serve_static runs on: the platform, and what exists
ServeSetup(windows, base_exists, index_exists, link_exists) ==
    /\ served.pc = "setup"
    /\ served' = [served EXCEPT !.pc = "ready", !.windows = windows,
                                !.base_exists = base_exists,
                                !.index_exists = index_exists,
                                !.link_exists = link_exists /\ base_exists /\ ~windows]
    /\ UNCHANGED <<server, pool, dropped, conn, net, env, test, routing, resp, scoped, ctx, registry, room>>

\* serve_static("public", request_path) is called
ServeRequest(pieces) ==
    /\ served.pc \in {"ready", "served"}
    /\ LET r == ServeStatic(served, <<"public">>, pieces)
       IN served' = [served EXCEPT !.pc = "served", !.path = pieces,
                                   !.status = r.status, !.opened = r.opened,
                                   !.resolved = r.resolved]
    /\ UNCHANGED <<server, pool, dropped, conn, net, env, test, routing, resp, scoped, ctx, registry, room>>

ServeInit == Init /\ env.scenario.conns = 1

ServeNext ==
    \/ \E windows, base_exists, index_exists, link_exists \in BOOLEAN :
          ServeSetup(windows, base_exists, index_exists, link_exists)
    \/ \E pieces \in ServePaths : ServeRequest(pieces)

ServeSpec == ServeInit /\ [][ServeNext]_vars

\* the location lies in the base directory
InBase(location) == location # <<>> /\ location[1] = "public"

\* C25: serve_static answers 403 and opens no file for every request path
\* with a '..' component, whether or not the base directory or the target
\* exists; a path without such a component never resolves outside the
\* base directory.
C25_NoTraversal ==
    served.pc = "served"
        => IF \E i \in 1..Len(served.path) : served.path[i] = ".."
           THEN served.status = 403 /\ served.opened = <<>>
           ELSE /\ served.resolved # <<>> => InBase(served.resolved)
                /\ served.opened # <<>> => InBase(served.opened)

\* the first half of C25 alone
C25_ParentDirForbidden ==
    (served.pc = "served" /\ \E i \in 1..Len(served.path) : served.path[i] = "..")
        => served.status = 403 /\ served.opened = <<>>

(* ------------------------ claims on Flow::Next ------------------------ *)

\* the calls of an exchange in which add_header returned Flow::Next and a
\* route handler was then called
NextThenHandler(calls) ==
    /\ Has(calls, "add_header")
    /\ ~Has(calls, "Stop")
    /\ Has(calls, "hello_handler") \/ Has(calls, "echo_handler")

\* the header add_header inserts is in the header map
HasMiddlewareHeader(headers) ==
    "X-Middleware" \in DOMAIN headers /\ headers["X-Middleware"] = "active"

\* C26: the request and response a middleware returns in Flow::Next are the
\* ones passed to the next middleware and finally to the route handler: for
\* a request that matches a route whose handler returns the response it
\* received, the header inserted by a Next-returning middleware is in the
\* final response, of TestClient::execute and of handle_connection.
C26_NextPassesOn ==
    /\ (test.count > 0 /\ NextThenHandler(test.calls))
          => HasMiddlewareHeader(test.response.headers)
    /\ \A c \in Conns :
          /\ (conn[c].pc = "write" /\ NextThenHandler(conn[c].calls))
                => HasMiddlewareHeader(conn[c].response.headers)
          /\ \A i \in 1..Len(net[c].out) :
                NextThenHandler(net[c].out[i].calls)
                    => HasMiddlewareHeader(net[c].out[i].headers)

\* C26 witness: the exchange of test_with_middleware.
C26_Witness ==
    /\ test.count > 0
    /\ test.calls = <<"add_header", "find", "hello_handler">>
    /\ HasMiddlewareHeader(test.response.headers)
    /\ test.response.status = 200

\* on a connection: a response written after add_header, a second
\* middleware and the handler
C26_OnConnection ==
    \E c \in Conns : \E i \in Responses(c) :
        /\ NextThenHandler(net[c].out[i].calls)
        /\ Has(net[c].out[i].calls, "async_response_logger")
        /\ HasMiddlewareHeader(net[c].out[i].headers)

(* ------------------------------- Context ------------------------------ *)

\* the most set_context calls made on one request
MaxSets == 3

\* the types of the values kept in the context, and their values
ContextTypes == {"UserId", "RequestId"}
ContextValues == {"123", "456", "789"}

\* an insert that keeps a value already stored for the type
ContextInsertKeepFirst(data, type, value) ==
    IF type \in DOMAIN data THEN data ELSE MapInsert(data, type, value)

\* Context::insert (request.rs:52-56): HashMap::insert under TypeId::of::<T>()
ContextInsert(data, type, value) == MapInsert(data, type, value)

\* Context::get (request.rs:58-66): the value under TypeId::of::<T>(), cloned
ContextGet(data, type) ==
    IF type \in DOMAIN data
    THEN [some |-> TRUE, v |-> data[type]]
    ELSE [some |-> FALSE, v |-> ""]

\* Request::set_context (request.rs:117-119)
SetContext(type, value) ==
    /\ Len(ctx.sets) < MaxSets
    /\ ctx' = [ctx EXCEPT !.data = ContextInsert(@, type, value),
                          !.sets = Append(@, [type |-> type, value |-> value])]
    /\ UNCHANGED <<server, pool, dropped, conn, net, env, test, routing, resp, scoped, served, registry, room>>

\* Request::get_context (request.rs:122-124)
GetContext(type) ==
    /\ ctx' = [ctx EXCEPT !.asked = type, !.at = Len(ctx.sets),
                          !.result = ContextGet(ctx.data, type)]
    /\ UNCHANGED <<server, pool, dropped, conn, net, env, test, routing, resp, scoped, served, registry, room>>

ContextInit == Init /\ env.scenario.conns = 1

ContextNext ==
    \/ \E type \in ContextTypes : \E value \in ContextValues : SetContext(type, value)
    \/ \E type \in ContextTypes : GetContext(type)

ContextSpec == ContextInit /\ [][ContextNext]_vars

RECURSIVE LastInserted(_, _, _)
\* the value of the last of the first n set_context calls made with the
\* type, if any
LastInserted(sets, n, type) ==
    IF n = 0 THEN [some |-> FALSE, v |-> ""]
    ELSE IF sets[n].type = type THEN [some |-> TRUE, v |-> sets[n].value]
    ELSE LastInserted(sets, n - 1, type)

\* C27: after any sequence of set_context calls, get_context::<T>() returns
\* a copy of the value most recently inserted for type T, or None if no
\* value of type T was ever inserted; inserting a value of another type U
\* never changes what get_context::<T>() returns.
C27_ContextLastInserted ==
    /\ ctx.asked # "" => ctx.result = LastInserted(ctx.sets, ctx.at, ctx.asked)
    /\ \A type \in ContextTypes :
          ContextGet(ctx.data, type) = LastInserted(ctx.sets, Len(ctx.sets), type)
    /\ \A type \in ContextTypes :
          (ctx.sets # <<>> /\ ctx.sets[Len(ctx.sets)].type # type)
              => ContextGet(ctx.data, type)
                     = LastInserted(ctx.sets, Len(ctx.sets) - 1, type)

\* C27 witness: UserId was inserted twice with different values, RequestId
\* after them, and get_context::<UserId>() returned the second value.
C27_Witness ==
    /\ Len(ctx.sets) = 3
    /\ ctx.sets[1] = [type |-> "UserId", value |-> "123"]
    /\ ctx.sets[2] = [type |-> "UserId", value |-> "456"]
    /\ ctx.sets[3].type = "RequestId"
    /\ ctx.asked = "UserId" /\ ctx.at = 3
    /\ ctx.result = [some |-> TRUE, v |-> "456"]

(* ------------------ claims on shared parameter children --------------- *)

\* routes added with different parameter names go through the parameter
\* child of route i at position k
TwoNames(i, k) ==
    \E j, l \in 1..Len(routing.routes) :
        /\ SharesChild(i, j, k) /\ SharesChild(i, l, k)
        /\ RouteSegs(j)[k].name # RouteSegs(l)[k].name

\* the name the last route added through that child gave to the parameter
LastName(i, k) ==
    LET last == CHOOSE j \in 1..Len(routing.routes) :
                   SharesChild(i, j, k)
                   /\ \A l \in (j + 1)..Len(routing.routes) : ~SharesChild(i, l, k)
    IN RouteSegs(last)[k].name

\* The lookup made found route i, and every segment the route captures
\* through a child that routes entered under different names is in the
\* parameter map under the name name_at gives.
CapturedUnder(name_at(_, _)) ==
    (routing.asked /\ routing.result.found) =>
        \A i \in 1..Len(routing.routes) :
            (AskedMethod(i) /\ Matches(i, AskedParts)
             /\ routing.result.handler = HandlerOf(i)) =>
                \A k \in ParamPositions(i) :
                    TwoNames(i, k) =>
                        /\ name_at(i, k) \in DOMAIN routing.result.params
                        /\ routing.result.params[name_at(i, k)] = AskedParts[k]

\* C28 as stated: two routes with different parameter names at the same
\* position under the same parent share one parameter child and the name
\* inserted last wins: for every later request matched through that child
\* the captured segment is in the parameter map under the last-inserted
\* name.
C28_LastNameWins == CapturedUnder(LastName)

\* C28 (amended): two routes with different parameter names at the same
\* position under the same parent share one parameter child and the name
\* inserted first wins: for every later request matched through that child
\* the captured segment is in the parameter map under the first-inserted
\* name, and under no other name given at that position.
C28_FirstNameWins ==
    /\ CapturedUnder(StoredName)
    /\ (routing.asked /\ routing.result.found) =>
          \A i \in 1..Len(routing.routes) :
              (AskedMethod(i) /\ Matches(i, AskedParts)
               /\ routing.result.handler = HandlerOf(i)) =>
                  \A k \in ParamPositions(i) :
                      (TwoNames(i, k) /\ LastName(i, k) # StoredName(i, k))
                          => LastName(i, k) \notin DOMAIN routing.result.params

\* C28 witness: /users/:uid/posts then /users/:id were added, and
\* GET /users/42 found the second route with 42 captured under uid.
C28_Witness ==
    /\ routing.asked /\ routing.result.found
    /\ Len(routing.routes) = 2
    /\ routing.routes[1].path = <<"/", "users", "/", ":uid", "/", "posts">>
    /\ routing.routes[2].path = <<"/", "users", "/", ":id">>
    /\ TwoNames(2, 2)
    /\ AskedParts = <<"users", "42">>
    /\ routing.result.handler = "h2"
    /\ routing.result.params = ("uid" :> "42")

(* --------------------- claims on the header size limit ---------------- *)

\* the header block of request r, terminator included, lies within the
\* maximum header size
WithinLimit(r) == ClientRequests[r].hlen <= ReadLimit

\* the task of connection c has parsed a header block and not yet
\* written the response to it
Parsed(c) == conn[c].pc \in {"body", "async_mw", "dispatch", "write", "w_hdr"}

\* C29: a request is parsed and dispatched only if its header block, up to
\* and including the terminator, lies within the maximum header size of
\* 2 * BUFFER_SIZE.  (When the accumulated bytes exceed that size with no
\* terminator found, handle_connection ends with an error without parsing,
\* running a middleware or a handler, or writing a response: that half is
\* C29_RejectedUnparsed.)
C29_HeaderSizeLimit ==
    \A c \in Conns :
        /\ Parsed(c) => WithinLimit(conn[c].hdr)
        /\ \A i \in 1..Len(net[c].out) : WithinLimit(net[c].out[i].r)

\* the second half of C29 alone: the step taken when the size check fails
\* ends the task with the error, and calls and writes nothing
C29_RejectedUnparsed ==
    [][\A c \in Conns :
          (conn[c].pc = "read" /\ Len(conn[c].read_buf) >= ReadLimit)
              => (conn'[c] # conn[c]
                    => /\ conn'[c].pc = "done"
                       /\ conn'[c].result = "err"
                       /\ conn'[c].error = "Request too large"
                       /\ conn'[c].calls = <<>>
                       /\ net'[c].out = net[c].out)]_vars

(* ---------------------- claims on the scope wrapper ------------------- *)

\* The lists of the scope name middlewares of the program: every name is
\* an entry of SCOPE_MIDDLEWARES, and the names under middleware = [..]
\* are declared for the phase Pre.
WellListed ==
    /\ \A i \in 1..Len(scoped.pre) :
          Has(scoped.slice, scoped.pre[i]) /\ PhaseOf(scoped.pre[i]) = "Pre"
    /\ \A i \in 1..Len(scoped.post) : Has(scoped.slice, scoped.post[i])

\* the generated handler was called for the request
WrapperRan == scoped.pc = "served" /\ scoped.inner # <<>>

\* the response a middleware stopped with is the one returned
ReturnedStop(mw) ==
    LET request == RequestNew("GET", scoped.path, "Http11",
                       IF scoped.authorization = "" THEN EmptyHeaders
                       ELSE ("Authorization" :> <<scoped.authorization>>), <<>>)
        flow == CallMiddleware(mw, request, ResponseDefault)
    IN /\ flow.stop
       /\ scoped.response.status = flow.res.status
       /\ scoped.response.body = flow.res.body

C30_StoppedInWrapper ==
    /\ WrapperRan /\ WellListed
    /\ scoped.pre = <<"async_auth">> /\ Len(scoped.post) = 2
    /\ scoped.inner = <<"async_auth", "Stop">>
    /\ scoped.response.status = 401

\* a name listed under middleware = [..] that is no entry of
\* SCOPE_MIDDLEWARES with phase Pre is passed over
C30_PassedOver ==
    /\ WrapperRan /\ ~WellListed
    /\ Len(scoped.pre) = 1
    /\ ~Has(scoped.inner, scoped.pre[1])
    /\ Has(scoped.inner, "protected")

\* C31: in the handler generated by #[scope], when a post middleware
\* returns Stop(R), no later post middleware of that scope is invoked and R
\* is the response returned for the request.
C31_PostStopEndsChain ==
    WrapperRan =>
        \A k \in 1..Len(scoped.inner) :
            (scoped.inner[k] = "Stop"
             /\ \E h \in 1..(k - 1) : scoped.inner[h] = "protected")
                => /\ k = Len(scoped.inner)
                   /\ ReturnedStop(scoped.inner[k - 1])

(* ------------------ claims on '*' and on completeness ----------------- *)

\* the last segment of route i is '*'
EndsWithStar(i) ==
    LET segs == RouteSegs(i)
    IN segs # <<>> /\ ~segs[Len(segs)].param /\ segs[Len(segs)].name = "*"

Hits == {i \in 1..Len(routing.routes) : AskedMethod(i) /\ Matches(i, AskedParts)}

\* C40: Router::find is complete: for any set of registered routes and any
\* insertion order, find(method, path) returns a match whenever some route
\* registered for that method matches the path segment by segment, also
\* when the literal child tried first at some depth leads to no handler and
\* the match is only reachable through the parameter child; and it returns
\* no match when no registered route matches.
C40_FindComplete ==
    routing.asked =>
        /\ routing.result.found <=> Hits # {}
        /\ routing.result.found
              => \E i \in Hits : routing.result.handler = HandlerOf(i)

\* C40 witness: the literal child 'new' is entered first and leads to no
\* handler for /users/new/posts; the route is found through the parameter
\* child.
C40_Witness ==
    /\ routing.asked /\ routing.result.found
    /\ Len(routing.routes) = 2
    /\ routing.routes[1].path = <<"/", "users", "/", "new">>
    /\ routing.routes[2].path = <<"/", "users", "/", ":uid", "/", "posts">>
    /\ AskedParts = <<"users", "new", "posts">>
    /\ routing.result.handler = "h2"
    /\ routing.result.params = ("uid" :> "new")

\* the same where the literal child has the path's length but no handler
\* for the method
C40_OtherMethodOnLiteral ==
    /\ routing.asked /\ routing.result.found
    /\ Len(routing.routes) = 2
    /\ routing.routes[1] = [method |-> "GET", path |-> <<"/", "users", "/", "new">>,
                            handler |-> "h1"]
    /\ routing.routes[2] = [method |-> "post", path |-> <<"/", "users", "/", ":id">>,
                            handler |-> "h2"]
    /\ routing.method = "POST" /\ AskedParts = <<"users", "new">>
    /\ routing.result.handler = "h2"

(* ---------------------------- PluginRegistry -------------------------- *)

\* plugins registered at most
MaxPlugins == 3

\* the plugins an application may register: name, priority, depends_on
PluginNames == {"db", "auth", "cache"}
PluginPriorities == {0, 10}
PluginDependencies == {{}, {"db"}, {"db", "cache"}, {"metrics"}}

\* the plugin of that name in the registry's vector
PluginNamed(plugins, name) ==
    plugins[CHOOSE i \in 1..Len(plugins) : plugins[i].name = name]

RECURSIVE SortPlugins(_)
\* PluginRegistry::sort_plugins (plugin.rs:112-116): a stable sort by
\* priority alone, the higher first
SortPlugins(plugins) ==
    IF plugins = <<>> THEN <<>>
    ELSE LET first == Head(plugins)
             rest == SortPlugins(Tail(plugins))
             ahead == {i \in 1..Len(rest) : rest[i].priority > first.priority}
         IN SubSeq(rest, 1, Cardinality(ahead)) \o <<first>>
            \o SubSeq(rest, Cardinality(ahead) + 1, Len(rest))

\* the dependencies named by the plugins that are not registered
MissingDependencies(plugins) ==
    {dep \in UNION {plugins[i].depends_on : i \in 1..Len(plugins)} :
        \A j \in 1..Len(plugins) : plugins[j].name # dep}

\* PluginRegistry::register (plugin.rs:106-109)
PluginRegister(name, priority, depends_on) ==
    /\ registry.validated = ""
    /\ Len(registry.plugins) < MaxPlugins
    /\ \A i \in 1..Len(registry.plugins) : registry.plugins[i].name # name
    /\ name \notin depends_on
    /\ registry' = [registry EXCEPT !.plugins =
           Append(@, [name |-> name, priority |-> priority, depends_on |-> depends_on])]
    /\ UNCHANGED <<server, pool, dropped, conn, net, env, test, routing, resp, scoped, ctx, served, room>>

\* PluginRegistry::validate_all (plugin.rs:119-139)
ValidateAll ==
    /\ registry.validated = ""
    /\ registry.plugins # <<>>
    /\ registry' = IF MissingDependencies(registry.plugins) # {}
                   THEN [registry EXCEPT !.validated = "err", !.before = registry.plugins]
                   ELSE [registry EXCEPT !.validated = "ok", !.before = registry.plugins,
                                         !.plugins = SortPlugins(registry.plugins)]
    /\ UNCHANGED <<server, pool, dropped, conn, net, env, test, routing, resp, scoped, ctx, served, room>>

\* PluginRegistry::init_all (plugin.rs:142-148), every on_init returning Ok
InitAll ==
    /\ registry.validated = "ok"
    /\ registry.inited = <<>>
    /\ registry' = [registry EXCEPT !.inited =
           [i \in 1..Len(registry.plugins) |-> registry.plugins[i].name]]
    /\ UNCHANGED <<server, pool, dropped, conn, net, env, test, routing, resp, scoped, ctx, served, room>>

\* PluginRegistry::start_all (plugin.rs:151-157), every on_start returning Ok
StartAll ==
    /\ registry.validated = "ok"
    /\ registry.inited # <<>>
    /\ registry.started = <<>>
    /\ registry' = [registry EXCEPT !.started =
           [i \in 1..Len(registry.plugins) |-> registry.plugins[i].name]]
    /\ UNCHANGED <<server, pool, dropped, conn, net, env, test, routing, resp, scoped, ctx, served, room>>

PluginInit == Init /\ env.scenario.conns = 1

PluginNext ==
    \/ \E name \in PluginNames : \E priority \in PluginPriorities :
          \E depends_on \in PluginDependencies : PluginRegister(name, priority, depends_on)
    \/ ValidateAll
    \/ InitAll
    \/ StartAll

PluginSpec == PluginInit /\ [][PluginNext]_vars

\* every plugin of the visit comes after the plugins it depends on
AfterDependencies(visited) ==
    \A i \in 1..Len(visited) :
        \A dep \in PluginNamed(registry.plugins, visited[i]).depends_on :
            \E j \in 1..(i - 1) : visited[j] = dep

\* C33: after validate_all succeeds, init_all and start_all visit every
\* plugin only after all the plugins named in its depends_on(), for any
\* registration order and any priorities; validate_all fails, leaving the
\* plugin order unchanged, when some plugin names a dependency that is not
\* registered.
C33_DependenciesFirst ==
    /\ registry.validated = "ok"
          => /\ AfterDependencies(registry.inited)
             /\ AfterDependencies(registry.started)
    /\ registry.validated # ""
          => (registry.validated = "err" <=> MissingDependencies(registry.before) # {})
    /\ registry.validated = "err" => registry.plugins = registry.before

\* the second half of C33 alone
C33_MissingDependencyFails ==
    /\ registry.validated # ""
          => (registry.validated = "err" <=> MissingDependencies(registry.before) # {})
    /\ registry.validated = "err" => registry.plugins = registry.before

(* ----------------------------- WebSocketRoom -------------------------- *)

\* connections added to a room at most, and broadcasts made
MaxSockets == 2
MaxBroadcasts == 2

Sockets == 1..MaxSockets

\* the message of the k-th broadcast
BroadcastMessage(k) == IF k = 1 THEN "first" ELSE "second"

\* WebSocketRoom::add (websocket.rs:234-238); connections.write() waits
\* while a broadcast holds the read lock
RoomAdd(ws) ==
    /\ room.pc = "idle"
    /\ ~Has(room.connections, ws)
    /\ ws \notin DOMAIN room.received
    /\ room' = [room EXCEPT !.connections = Append(@, ws),
                            !.received = @ @@ (ws :> <<>>)]
    /\ UNCHANGED <<server, pool, dropped, conn, net, env, test, routing, resp, scoped, ctx, served, registry>>

\* WebSocketRoom::remove (websocket.rs:241-246)
RoomRemove(ws) ==
    /\ room.pc = "idle"
    /\ Has(room.connections, ws)
    /\ room' = [room EXCEPT !.connections = SelectSeq(@, LAMBDA c : c # ws)]
    /\ UNCHANGED <<server, pool, dropped, conn, net, env, test, routing, resp, scoped, ctx, served, registry>>

\* a task locks the mutex add returned, as a handler does around
\* ws.lock().await.recv().await
SocketLock(ws) ==
    /\ ws \in DOMAIN room.received
    /\ ws \notin room.held
    /\ room' = [room EXCEPT !.held = @ \cup {ws}]
    /\ UNCHANGED <<server, pool, dropped, conn, net, env, test, routing, resp, scoped, ctx, served, registry>>

\* the task drops its guard
SocketUnlock(ws) ==
    /\ ws \in room.held
    /\ room' = [room EXCEPT !.held = @ \ {ws}]
    /\ UNCHANGED <<server, pool, dropped, conn, net, env, test, routing, resp, scoped, ctx, served, registry>>

\* WebSocketRoom::broadcast is called (websocket.rs:249-250): the read
\* lock on the connections is taken
BroadcastBegin ==
    /\ room.pc = "idle"
    /\ room.broadcasts < MaxBroadcasts
    /\ room.connections # <<>>
    /\ room' = [room EXCEPT !.pc = "loop", !.at_call = room.connections, !.i = 1,
                            !.broadcasts = @ + 1]
    /\ UNCHANGED <<server, pool, dropped, conn, net, env, test, routing, resp, scoped, ctx, served, registry>>

\* One turn of the loop of broadcast (websocket.rs:251-255): try_lock, and
\* the send if the mutex was free.
BroadcastStep ==
    /\ room.pc = "loop"
    /\ room.i <= Len(room.connections)
    /\ LET ws == room.connections[room.i]
       IN room' = [room EXCEPT
              !.received[ws] = IF ws \in room.held THEN @
                               ELSE Append(@, BroadcastMessage(room.broadcasts)),
              !.i = @ + 1]
    /\ UNCHANGED <<server, pool, dropped, conn, net, env, test, routing, resp, scoped, ctx, served, registry>>

\* broadcast returns and the read lock is dropped
BroadcastEnd ==
    /\ room.pc = "loop"
    /\ room.i > Len(room.connections)
    /\ room' = [room EXCEPT !.pc = "idle", !.i = 0]
    /\ UNCHANGED <<server, pool, dropped, conn, net, env, test, routing, resp, scoped, ctx, served, registry>>

RoomInit == Init /\ env.scenario.conns = 1

RoomNext ==
    \/ \E ws \in Sockets : RoomAdd(ws)
    \/ \E ws \in Sockets : RoomRemove(ws)
    \/ \E ws \in Sockets : SocketLock(ws)
    \/ \E ws \in Sockets : SocketUnlock(ws)
    \/ BroadcastBegin
    \/ BroadcastStep
    \/ BroadcastEnd

RoomSpec == RoomInit /\ [][RoomNext]_vars

\* C34: WebSocketRoom::broadcast sends the message to every connection
\* that is in the room when it is called, in every interleaving with
\* other tasks, including connections whose mutex is held by another task
\* at that moment.
C34_BroadcastReachesAll ==
    (room.broadcasts > 0 /\ room.pc = "idle")
        => \A k \in 1..Len(room.at_call) :
              Has(room.received[room.at_call[k]], BroadcastMessage(room.broadcasts))

\* a broadcast reaches every connection whose mutex is free at its turn of
\* the loop
C34_FreeConnectionsReached ==
    [][(room.pc = "loop" /\ room'.i = room.i + 1
        /\ room.connections[room.i] \notin room.held)
          => Has(room'.received[room.connections[room.i]],
                 BroadcastMessage(room.broadcasts))]_vars

(* ------------------- claims on the headers on the wire ---------------- *)

\* C35: for every response with a static body that write_response puts on
\* the wire, the Content-Length header written equals the number of body
\* bytes written after the blank line, whatever Content-Length value the
\* handler or a middleware left in the response.
C35_ContentLengthOnTheWire ==
    \A c \in Conns : \A i \in Responses(c) :
        LET e == net[c].out[i]
        IN /\ "Content-Length" \in DOMAIN e.headers
           /\ e.headers["Content-Length"] = LenToString(Len(e.body))

\* C35 witness: echo_handler replaced the empty body of a response whose
\* Content-Length was 0 by the two bytes of the request, and the response
\* was written with Content-Length 2 and those bytes.
C35_Witness ==
    \E c \in Conns : \E i \in Responses(c) :
        LET e == net[c].out[i]
        IN /\ Has(e.calls, "echo_handler")
           /\ ResponseDefault.headers["Content-Length"] = "0"
           /\ echo_handler([NoRequest EXCEPT !.body = e.body], ResponseDefault)
                 .headers["Content-Length"] = "0"
           /\ Len(e.body) = 2
           /\ e.headers["Content-Length"] = "2"

\* C36: for every HTTP response written by handle_connection in the normal
\* request/response cycle, the Connection header on the wire is
\* 'keep-alive' exactly when the task goes on to read another request from
\* the connection, and 'close' exactly when the task terminates after the
\* response; a Connection value set by a middleware or handler (including
\* a Stop response) is overwritten.
C36_ConnectionHeaderTellsTheTruth ==
    \A c \in Conns : \A i \in Responses(c) :
        LET e == net[c].out[i]
        IN ~e.ws =>
              /\ "Connection" \in DOMAIN e.headers
              /\ e.headers["Connection"] \in {"keep-alive", "close"}
              /\ e.headers["Connection"] = "keep-alive" <=> e.next = "loop"
              /\ e.headers["Connection"] = "close" <=> e.next = "return"

\* C36 witness: async_auth stopped a keep-alive request with a response
\* that says Connection: close; it was written with keep-alive and the
\* task went on to the next request.
C36_Witness ==
    \E c \in Conns : \E i \in Responses(c) :
        LET e == net[c].out[i]
        IN /\ ~e.ws /\ e.stopped
           /\ e.stop_res.headers["Connection"] = "close"
           /\ e.headers["Connection"] = "keep-alive"
           /\ e.next = "loop"
           /\ conn[c].pc \in {"top", "read"}

(* --------------------- claims on the bytes read ----------------------- *)

\* the task of connection c waits for the first byte of a request, and
\* the socket holds none and is open
WaitsForRequest(c) ==
    /\ conn[c].pc = "read"
    /\ conn[c].total_read = 0
    /\ net[c].incoming = <<>>
    /\ ~net[c].closed

\* C37: on a keep-alive connection no request bytes that were read from
\* the socket are lost: when one read delivers the end of request k
\* together with the beginning (or the whole) of request k+1, the bytes
\* past the end of request k's body are kept and parsed as request k+1, so
\* every complete request the server has read gets its response.
C37_NoBytesLost ==
    \A c \in Conns :
        WaitsForRequest(c)
            => \A n \in 1..net[c].sent : \E i \in Responses(c) : net[c].out[i].n = n

(* ------------------------ claims on WouldBlock ------------------------ *)

\* The task of connection c ends with "Request too large" in this step
RejectedTooLarge(c) ==
    /\ conn[c].pc = "read"
    /\ conn'[c].pc = "done"
    /\ conn'[c].error = "Request too large"

\* C38: a WouldBlock result of the read changes nothing but the time: a
\* request is rejected as too large only when the bytes accumulated for it
\* have reached the limit, however many WouldBlock results came before.
C38_WouldBlockHarmless ==
    [][\A c \in Conns :
          RejectedTooLarge(c) => conn[c].total_read >= ReadLimit]_vars

(* -------------------- claims on the test client ----------------------- *)

\* The request handle_connection built from the bytes it read, before any
\* middleware ran (server.rs:339-346)
Received(cr) ==
    LET t == ClientRequests[cr.hdr]
        version == ParseVersion(t.version)
    IN RequestNew(t.method, t.path, version,
                  ParseHeaders(version, t.headers).header_map, cr.request.body)

\* C39: for every request, TestClient::execute yields the status and the
\* body that the dispatch stage of handle_connection yields for it.
C39_TestClientAsServer ==
    \A c \in Conns :
        conn[c].pc = "write"
            => LET e == Execute(Received(conn[c]))
               IN /\ e.response.status = conn[c].response.status
                  /\ e.response.body = conn[c].response.body

====
